---- MODULE Spec2Model ----
(***************************************************************************)
(* State-machine model of the VoiceBot session controller                  *)
(* (src/frontend/script.js, class VoiceBotApp): the voice-capture state    *)
(* machine, the message dispatcher with its local fallback responder, the  *)
(* notification feed and voice-command layer, the metrics refresh timers   *)
(* and the PDF report pipeline.                                            *)
(*                                                                         *)
(* Texts the code inspects (user messages, utterances, trigger phrases)    *)
(* are sequences of one-character strings, so that toLowerCase, trim and   *)
(* includes are computed as the code computes them.  Texts the code only   *)
(* passes along (replies, notification wording) are TLA+ strings.          *)
(***************************************************************************)
EXTENDS Integers, Sequences, FiniteSets, TLC

\* ------------------------------------------------------------------ bounds
\* sends (typed or voice) per behaviour
MaxSends == 2
\* recognized utterances per behaviour
MaxVoice == 2
\* microphone-button clicks per behaviour
MaxMic == 2
\* navigation / toolbar clicks per behaviour
MaxClicks == 2
\* timer ticks and manual refreshes per behaviour
MaxTicks == 2
\* report requests per behaviour
MaxReports == 2
\* largest value of the millisecond clock
MaxClock == 2
\* fetch events delivered to the service worker per behaviour
MaxFetches == 2

\* --------------------------------------------------------- program constants
InitConversations == 1247
InitLeads == 89
InitRevenue == 52400
InitSatisfaction == 96
LowStockThreshold == 15

\* ------------------------------------------------------------------- strings
Upper == <<"A","B","C","D","E","F","G","H","I","J","K","L","M",
           "N","O","P","Q","R","S","T","U","V","W","X","Y","Z">>
Lower == <<"a","b","c","d","e","f","g","h","i","j","k","l","m",
           "n","o","p","q","r","s","t","u","v","w","x","y","z">>

\* String.prototype.toLowerCase, one character
LowerChar(c) ==
  IF \E k \in 1..26 : Upper[k] = c
    THEN Lower[CHOOSE k \in 1..26 : Upper[k] = c]
    ELSE c

\* String.prototype.toLowerCase
toLowerCase(s) == [k \in 1..Len(s) |-> LowerChar(s[k])]

\* String.prototype.includes
includes(s, sub) ==
  \E k \in 0..(Len(s) - Len(sub)) : SubSeq(s, k + 1, k + Len(sub)) = sub

IsSpace(c) == c = " "

\* String.prototype.trim
RECURSIVE trimLeft(_)
trimLeft(s) == IF s # <<>> /\ IsSpace(Head(s)) THEN trimLeft(Tail(s)) ELSE s
RECURSIVE trimRight(_)
trimRight(s) ==
  IF s # <<>> /\ IsSpace(s[Len(s)]) THEN trimRight(SubSeq(s, 1, Len(s) - 1)) ELSE s
trim(s) == trimRight(trimLeft(s))

\* ------------------------------------------------- the fallback rule table
KwBike == <<"b","i","k","e">>
KwUnder == <<"u","n","d","e","r">>
KwLakh == <<"l","a","k","h">>
KwTestRide == <<"t","e","s","t"," ","r","i","d","e">>
KwBook == <<"b","o","o","k">>
KwEmi == <<"e","m","i">>
KwFinance == <<"f","i","n","a","n","c","e">>
KwService == <<"s","e","r","v","i","c","e">>
KwMaintenance == <<"m","a","i","n","t","e","n","a","n","c","e">>

\* the five fixed response texts (abbreviated to their opening sentence)
DemoBikes == "We have several excellent bikes under 1 lakh!"
DemoTestRide == "I'd be happy to help you book a test ride!"
DemoEmi == "We offer flexible EMI options starting from Rs 2,500 per month!"
DemoService == "We offer comprehensive service packages"
DemoGeneric == "Thank you for your interest!"

\* a variant that matches the keywords against the message as typed, without
\* lower-casing it
getDemoResponseCaseSensitive(message) ==
  LET msg == message IN
  IF includes(msg, KwBike) \/ includes(msg, KwUnder) \/ includes(msg, KwLakh)
    THEN DemoBikes
  ELSE IF includes(msg, KwTestRide) \/ includes(msg, KwBook) THEN DemoTestRide
  ELSE IF includes(msg, KwEmi) \/ includes(msg, KwFinance) THEN DemoEmi
  ELSE IF includes(msg, KwService) \/ includes(msg, KwMaintenance) THEN DemoService
  ELSE DemoGeneric

\* a variant that tries the test-ride rule before the bike rule
getDemoResponseBookingFirst(message) ==
  LET msg == toLowerCase(message) IN
  IF includes(msg, KwTestRide) \/ includes(msg, KwBook) THEN DemoTestRide
  ELSE IF includes(msg, KwBike) \/ includes(msg, KwUnder) \/ includes(msg, KwLakh)
    THEN DemoBikes
  ELSE IF includes(msg, KwEmi) \/ includes(msg, KwFinance) THEN DemoEmi
  ELSE IF includes(msg, KwService) \/ includes(msg, KwMaintenance) THEN DemoService
  ELSE DemoGeneric

\* getDemoResponse: the first rule whose keyword the lower-cased message contains
getDemoResponse(message) ==
  LET msg == toLowerCase(message) IN
  IF includes(msg, KwBike) \/ includes(msg, KwUnder) \/ includes(msg, KwLakh)
    THEN DemoBikes
  ELSE IF includes(msg, KwTestRide) \/ includes(msg, KwBook) THEN DemoTestRide
  ELSE IF includes(msg, KwEmi) \/ includes(msg, KwFinance) THEN DemoEmi
  ELSE IF includes(msg, KwService) \/ includes(msg, KwMaintenance) THEN DemoService
  ELSE DemoGeneric

\* ------------------------------------------------------ voice command table
CmdShowDashboard == <<"s","h","o","w"," ","d","a","s","h","b","o","a","r","d">>
CmdOpenAnalytics == <<"o","p","e","n"," ","a","n","a","l","y","t","i","c","s">>
CmdShowCustomers == <<"s","h","o","w"," ","c","u","s","t","o","m","e","r","s">>
CmdCheckInventory == <<"c","h","e","c","k"," ","i","n","v","e","n","t","o","r","y">>
CmdGenerateReport == <<"g","e","n","e","r","a","t","e"," ","r","e","p","o","r","t">>
CmdRefreshData == <<"r","e","f","r","e","s","h"," ","d","a","t","a">>
CmdDarkMode == <<"d","a","r","k"," ","m","o","d","e">>
CmdLightMode == <<"l","i","g","h","t"," ","m","o","d","e">>
CmdExportData == <<"e","x","p","o","r","t"," ","d","a","t","a">>
CmdHelpMe == <<"h","e","l","p"," ","m","e">>

\* Object.keys(this.voiceCommands): the keys in declaration order
voiceCommands ==
  <<CmdShowDashboard, CmdOpenAnalytics, CmdShowCustomers, CmdCheckInventory,
    CmdGenerateReport, CmdRefreshData, CmdDarkMode, CmdLightMode,
    CmdExportData, CmdHelpMe>>

NoCommand == 0

\* a variant that picks the trigger phrase that occurs earliest in the transcript
findCommandByPosition(transcript) ==
  LET at(k) == CHOOSE p \in 0..Len(transcript) :
                 /\ SubSeq(transcript, p + 1, p + Len(voiceCommands[k])) = voiceCommands[k]
                 /\ \A q \in 0..(p - 1) :
                      SubSeq(transcript, q + 1, q + Len(voiceCommands[k])) # voiceCommands[k]
      found == {k \in 1..Len(voiceCommands) : includes(transcript, voiceCommands[k])}
  IN IF found = {} THEN NoCommand
     ELSE CHOOSE k \in found : \A j \in found : at(k) <= at(j)

\* Object.keys(...).find(cmd => transcript.includes(cmd)): index of the first
\* key contained in the transcript, NoCommand when there is none
findCommand(transcript) ==
  IF \E k \in 1..Len(voiceCommands) : includes(transcript, voiceCommands[k])
    THEN CHOOSE k \in 1..Len(voiceCommands) :
           /\ includes(transcript, voiceCommands[k])
           /\ \A j \in 1..(k - 1) : ~includes(transcript, voiceCommands[j])
    ELSE NoCommand

\* ------------------------------------------------------------------ inputs
\* values of the text field when Send is pressed
TxtBlank == <<" "," ">>
TxtBook == <<" ","B","o","o","k"," ">>
TxtBookBike == <<"b","o","o","k"," ","b","i","k","e">>
TxtTestRide == <<"T","E","S","T"," ","R","I","D","E">>
TxtEmi == <<"e","m","i">>
TxtHi == <<"h","i">>
TypedInputs == {TxtBlank, TxtBook, TxtBookBike, TxtTestRide, TxtEmi, TxtHi}

\* messages that meet the fallback rules alone and several at a time
TxtLakh == <<"1"," ","L","A","K","H">>
TxtRideEmi == <<"e","m","i"," ","t","e","s","t"," ","r","i","d","e">>
TxtFinanceService == <<"s","e","r","v","i","c","e"," ","F","i","n","a","n","c","e">>
TxtMaintenance == <<"m","a","i","n","t","e","n","a","n","c","e","?">>
TxtPremium == <<"p","r","e","m","i","u","m">>
RuleInputs ==
  {TxtBookBike, TxtLakh, TxtRideEmi, TxtFinanceService, TxtMaintenance, TxtPremium, TxtHi}

\* utterances the platform recognizer reports
UttShowDashboard ==
  <<"p","l","e","a","s","e"," ","s","h","o","w"," ","d","a","s","h","b","o","a","r","d",
    " ","n","o","w">>
UttDarkMode == <<"D","a","r","k"," ","M","o","d","e">>
UttLightThenDark ==
  <<"l","i","g","h","t"," ","m","o","d","e"," ","d","a","r","k"," ","m","o","d","e">>
UttBook == <<"B","o","o","k"," ","i","t">>
UttHello == <<"H","e","l","l","o">>
UttRefresh == <<"r","e","f","r","e","s","h"," ","d","a","t","a">>
Utterances ==
  {UttShowDashboard, UttDarkMode, UttLightThenDark, UttBook, UttHello, UttRefresh}

\* one utterance around each of the other trigger phrases
Okay == <<"O","k","a","y"," ">>
CommandUtterances ==
  {Okay \o c : c \in {CmdOpenAnalytics, CmdShowCustomers, CmdCheckInventory,
                      CmdGenerateReport, CmdLightMode, CmdExportData, CmdHelpMe}}

\* ------------------------------------------------------------------- state
VARIABLES
  ready,           \* the body of init() after the loading screen has run
  hasCapture,      \* the platform offers SpeechRecognition
  textInput,       \* the value of the #textInput field
  now,             \* Date.now()
  recognition,     \* this.recognition is set
  isListening,     \* this.isListening
  recState,        \* the platform recognizer's session state
  chatMessages,    \* children of .chat-messages, in document order
  notifications,   \* this.notifications, newest first
  userId,          \* this.userId
  calls,           \* processMessage invocations, in call order
  requests,        \* bodies POSTed to /chat, in call order
  spoken,          \* texts handed to speakResponse, in call order
  currentSection,  \* this.currentSection
  isDarkMode,      \* this.isDarkMode
  realTimeData,    \* this.realTimeData
  loads,           \* load*Section calls awaiting their data
  reports,         \* generateAdvancedPDFReport invocations, in call order
  progressUI,      \* #reportProgress elements of the document, in order
  downloads,       \* files handed to the browser for download
  rendered,        \* sections whose markup render*Data has produced
  jobs,            \* timeouts set by generateBusinessReport, not yet fired
  used,            \* how many external events of each kind have occurred
  swPhase,         \* sw.js: the lifecycle state of this version of the worker
  cacheStorage,    \* sw.js: the origin's caches, in creation order
  pendingDeletes,  \* sw.js: caches.delete calls of the activate handler not yet settled
  fetchEvents      \* sw.js: the fetch events delivered, in order

voiceVars == <<recognition, isListening, recState>>
uiVars == <<chatMessages, notifications, now>>
dispatchVars == <<userId, calls, requests, spoken>>
viewVars == <<currentSection, isDarkMode, loads>>
reportVars == <<reports, progressUI, rendered, downloads>>
workerVars == <<swPhase, cacheStorage, pendingDeletes, fetchEvents>>
pageVars == <<ready, hasCapture, textInput, now, recognition, isListening, recState,
              chatMessages, notifications, userId, calls, requests, spoken, currentSection,
              isDarkMode, realTimeData, loads, reports, progressUI, downloads, rendered,
              jobs, used>>
vars == <<pageVars, workerVars>>

\* ------------------------------------------------------------ DOM elements
NoMeta == [intent |-> "", confidence |-> 0]
NoMsg == [key |-> "", arg |-> <<>>, n |-> 0]

\* a notification / system message text: a template and what is spliced in
Msg(key) == [key |-> key, arg |-> <<>>, n |-> 0]
MsgArg(key, arg) == [key |-> key, arg |-> arg, n |-> 0]
MsgNum(key, n) == [key |-> key, arg |-> <<>>, n |-> n]

\* one child of .chat-messages; turn is the send it belongs to (0: none)
Element(cls, text, reply, meta, items, msg, type, turn) ==
  [cls |-> cls, text |-> text, reply |-> reply, meta |-> meta, items |-> items,
   msg |-> msg, type |-> type, turn |-> turn]

addUserMessage(chat, message, type, turn) ==
  Append(chat, Element("user", message, "", NoMeta, <<>>, NoMsg, type, turn))

addAIMessage(chat, message, metadata, turn) ==
  Append(chat, Element("ai", <<>>, message, metadata, <<>>, NoMsg, "text", turn))

addQuickReplies(chat, suggestions, turn) ==
  Append(chat, Element("quick", <<>>, "", NoMeta, suggestions, NoMsg, "", turn))

addSystemMessage(chat, message, type) ==
  Append(chat, Element("system", <<>>, "", NoMeta, <<>>, message, type, 0))

showTypingIndicator(chat, turn) ==
  Append(chat, Element("typing", <<>>, "", NoMeta, <<>>, NoMsg, "", turn))

RemoveAt(s, k) == SubSeq(s, 1, k - 1) \o SubSeq(s, k + 1, Len(s))

\* document.getElementById('typingIndicator'): the first such element
hideTypingIndicator(chat) ==
  IF \E k \in 1..Len(chat) : chat[k].cls = "typing"
    THEN RemoveAt(chat, CHOOSE k \in 1..Len(chat) :
                          /\ chat[k].cls = "typing"
                          /\ \A j \in 1..(k - 1) : chat[j].cls # "typing")
    ELSE chat

\* ------------------------------------------------------- notification feed
\* the delays by which the clock may have advanced since it was last read
Delays(t) == {d \in 0..1 : t + d <= MaxClock}

\* a variant of the operation below that keeps the newest entry only
addNotificationReplaces(w, d, message, type) ==
  [w EXCEPT !.feed = <<[id |-> w.now + d, message |-> message, type |-> type,
                        timestamp |-> w.now + d, read |-> FALSE]>>,
            !.chat = addSystemMessage(w.chat, message, type),
            !.now = w.now + d]

\* w: a World; d: milliseconds elapsed since the clock was last read
addNotification(w, d, message, type) ==
  [w EXCEPT !.feed = <<[id |-> w.now + d, message |-> message, type |-> type,
                        timestamp |-> w.now + d, read |-> FALSE]>> \o w.feed,
            !.chat = addSystemMessage(w.chat, message, type),
            !.now = w.now + d]

\* the part of the state a synchronous handler works on
World ==
  [chat |-> chatMessages, feed |-> notifications, now |-> now,
   currentSection |-> currentSection, isDarkMode |-> isDarkMode, loads |-> loads,
   realTimeData |-> realTimeData, jobs |-> jobs, downloads |-> downloads]

SetWorld(w) ==
  /\ chatMessages' = w.chat
  /\ notifications' = w.feed
  /\ now' = w.now
  /\ currentSection' = w.currentSection
  /\ isDarkMode' = w.isDarkMode
  /\ loads' = w.loads
  /\ realTimeData' = w.realTimeData
  /\ jobs' = w.jobs
  /\ downloads' = w.downloads

Use(kind) == used' = [used EXCEPT ![kind] = @ + 1]
\* a firing of one of the two 30 s interval timers: "updates" is the one set by
\* startRealTimeUpdates, "monitoring" the first one set by startRealTimeMonitoring
Fire(timer) == used' = [used EXCEPT !["tick"] = @ + 1, ![timer] = @ + 1]

\* ------------------------------------------------------------------- Init
NoUser == ""
UserIds == {"user_a", "user_b"}
EventKinds == {"voice", "mic", "click", "tick", "sw", "updates", "monitoring"}
AsyncLoads == {"health", "analytics", "customers", "inventory", "alerts"}

\* the state the constructor leaves, before init() resumes from the loading screen
Init ==
  /\ ready = FALSE
  /\ hasCapture \in BOOLEAN
  /\ textInput = <<>>
  /\ now = 0
  /\ recognition = FALSE
  /\ isListening = FALSE
  /\ recState = "inactive"
  /\ chatMessages = <<>>
  /\ notifications = <<>>
  /\ userId = NoUser
  /\ calls = <<>>
  /\ requests = <<>>
  /\ spoken = <<>>
  /\ currentSection = "dashboard"
  /\ isDarkMode = FALSE
  /\ realTimeData = [conversations |-> InitConversations, leads |-> InitLeads,
                     revenue |-> InitRevenue, satisfaction |-> InitSatisfaction]
  /\ loads = [k \in AsyncLoads |-> 0]
  /\ reports = <<>>
  /\ progressUI = <<>>
  /\ downloads = <<>>
  /\ rendered = {}
  /\ jobs = 0
  /\ used = [k \in EventKinds |-> 0]
  /\ swPhase = "parsed"
  /\ cacheStorage = <<>>
  /\ pendingDeletes = {}
  /\ fetchEvents = <<>>

\* initSpeechRecognition, applied to the chat
initSpeechRecognition(chat) ==
  IF hasCapture
    THEN chat
    ELSE addSystemMessage(chat, Msg("Speech recognition not supported in this browser."),
                          "warning")

\* setupNotificationSystem
setupNotificationSystem(w, d1, d2) ==
  addNotification(addNotification(w, d1, Msg("Advanced AI features activated!"), "success"),
                  d2, Msg("Real-time monitoring started"), "info")

\* setupBusinessIntelligence
setupBusinessIntelligence(w, d) ==
  addNotification(w, d, Msg("Business insights generated"), "info")

\* init(), from the end of the loading screen to the await in checkSystemStatus:
\* initSpeechRecognition, setupEventListeners, startRealTimeUpdates,
\* setupAdvancedFeatures (which also starts the monitoring timers).
\* d1, d2, d3: the milliseconds that pass before each of its three notifications
init(d1, d2, d3) ==
  /\ ~ready
  /\ ready' = TRUE
  /\ recognition' = hasCapture
  /\ now + d1 + d2 + d3 <= MaxClock
  /\ LET w0 == [World EXCEPT !.chat = initSpeechRecognition(chatMessages)]
         w1 == setupNotificationSystem(w0, d1, d2)
         w2 == setupBusinessIntelligence(w1, d3)
     IN SetWorld([w2 EXCEPT !.loads["health"] = @ + 1])
  /\ UNCHANGED <<hasCapture, workerVars, textInput, isListening, recState, dispatchVars, reports, progressUI, rendered,
                 used>>

\* checkSystemStatus, after fetch('/api/health') and response.json() settle
checkSystemStatus(ok) ==
  /\ loads["health"] > 0
  /\ loads' = [loads EXCEPT !["health"] = @ - 1]
  /\ chatMessages' =
       IF ok THEN addSystemMessage(chatMessages, Msg("System online and ready!"), "success")
             ELSE addSystemMessage(chatMessages, Msg("System running in offline mode"),
                                   "warning")
  /\ UNCHANGED <<ready, hasCapture, workerVars, textInput, now, voiceVars, notifications, dispatchVars,
                 currentSection, isDarkMode, realTimeData, reportVars, jobs, used>>

\* navigator.serviceWorker.register('/sw.js').then(...): the DOMContentLoaded handler
swRegistered ==
  /\ used["sw"] = 0
  /\ Use("sw")
  /\ \E d \in Delays(now) :
       SetWorld(addNotification(World, d, Msg("App can be installed for offline use!"),
                                "info"))
  /\ UNCHANGED <<ready, hasCapture, workerVars, textInput, voiceVars, dispatchVars, reports, progressUI, rendered>>

\* ------------------------------------------------------ message dispatcher
\* what the chat service may send back: the parsed JSON body.  response "" is
\* a missing or empty response field; intentKind "other" is a truthy intent that
\* is not a string; confidence is in percent, 0 when missing; suggestionsKind
\* "string" is a non-empty suggestions value that is not an array.
Payload(response, intentKind, intent, confidence, suggestionsKind, suggestions) ==
  [parsable |-> TRUE, response |-> response, intentKind |-> intentKind,
   intent |-> intent, confidence |-> confidence,
   suggestionsKind |-> suggestionsKind, suggestions |-> suggestions]

SugEmi == <<"E","M","I">>
SugBook == <<"b","o","o","k">>

PayloadPlain == Payload("R1", "none", "", 0, "none", <<>>)
PayloadFull == Payload("R2", "string", "greeting", 90, "array", <<SugEmi, SugBook>>)
PayloadNoResponse == Payload("", "string", "error", 0, "none", <<>>)
PayloadBadIntent == Payload("R3", "other", "", 50, "none", <<>>)
PayloadBadSuggestions == Payload("R4", "none", "", 0, "string", <<>>)
Unparsable == [Payload("", "none", "", 0, "none", <<>>) EXCEPT !.parsable = FALSE]
NoBody == Unparsable

Payloads == {PayloadPlain, PayloadFull, PayloadNoResponse, PayloadBadIntent,
             PayloadBadSuggestions}
Bodies == Payloads \cup {Unparsable}

\* a variant of the step below that draws a new identifier at every dispatch
sendRegenerates(message, type) ==
  LET turn == Len(calls) + 1 IN
  /\ Len(calls) < MaxSends
  /\ chatMessages' =
       showTypingIndicator(addUserMessage(chatMessages, message, type, turn), turn)
  /\ \E id \in UserIds : userId' = id
  /\ requests' = Append(requests, [message |-> message, language |-> "en-IN",
                                   user_id |-> userId'])
  /\ calls' = Append(calls, [message |-> message, pc |-> "fetch", outcome |-> "pending",
                             body |-> NoBody])
  /\ UNCHANGED spoken

\* addUserMessage followed by processMessage up to its await of fetch
send(message, type) ==
  LET turn == Len(calls) + 1 IN
  /\ Len(calls) < MaxSends
  /\ chatMessages' =
       showTypingIndicator(addUserMessage(chatMessages, message, type, turn), turn)
  /\ \E id \in UserIds : userId' = IF userId = NoUser THEN id ELSE userId
  /\ requests' = Append(requests, [message |-> message, language |-> "en-IN",
                                   user_id |-> userId'])
  /\ calls' = Append(calls, [message |-> message, pc |-> "fetch", outcome |-> "pending",
                             body |-> NoBody])
  /\ UNCHANGED spoken

\* a variant of the handler below that sends the field's value as it stands
sendTextMessageUntrimmed(value) ==
  /\ ready
  /\ IF value # <<>>
       THEN /\ textInput' = <<>>
            /\ send(value, "text")
       ELSE /\ textInput' = value
            /\ UNCHANGED <<chatMessages, dispatchVars>>
  /\ UNCHANGED <<ready, hasCapture, workerVars, now, voiceVars, notifications, viewVars,
                 realTimeData, reportVars, jobs, used>>

\* sendTextMessage, run with `value` in the text field: handleSuggestion writes
\* the field and calls it, the Send button and Enter call it on what was typed
sendTextMessage(value) ==
  /\ ready
  /\ LET message == trim(value) IN
       IF message # <<>>
         THEN /\ textInput' = <<>>
              /\ send(message, "text")
         ELSE /\ textInput' = value
              /\ UNCHANGED <<chatMessages, dispatchVars>>
  /\ UNCHANGED <<ready, hasCapture, workerVars, now, voiceVars, notifications, viewVars,
                 realTimeData, reportVars, jobs, used>>

\* speakResponse
speakResponse(log, text) == Append(log, text)

\* the catch block of processMessage, entered with the chat and speech log as the
\* try block left them
catchBlock(chat, log, message, turn) ==
  LET demoResponse == getDemoResponse(message) IN
  [chat |-> addAIMessage(hideTypingIndicator(chat), demoResponse, NoMeta, turn),
   spoken |-> speakResponse(log, demoResponse)]

\* createMessageElement throws on metadata.intent.replace when intent is not a string
createMessageElementThrows(data) ==
  data.intentKind = "other" /\ data.confidence > 0

\* the try block of processMessage after response.json() resolved with data
tryBlock(chat, log, data, message, turn) ==
  LET c1 == hideTypingIndicator(chat) IN
  IF data.response = "" THEN [chat |-> c1, spoken |-> log]
  ELSE IF createMessageElementThrows(data) THEN catchBlock(c1, log, message, turn)
  ELSE
    LET c2 == addAIMessage(c1, data.response,
                           [intent |-> data.intent, confidence |-> data.confidence], turn)
    IN IF data.suggestionsKind = "string" THEN catchBlock(c2, log, message, turn)
       ELSE IF data.suggestionsKind = "array" /\ Len(data.suggestions) > 0
         THEN [chat |-> addQuickReplies(c2, data.suggestions, turn),
               spoken |-> speakResponse(log, data.response)]
       ELSE [chat |-> c2, spoken |-> speakResponse(log, data.response)]

\* the fetch of call i rejects (network error) and processMessage resumes in its
\* catch block
fetchRejects(i) ==
  /\ calls[i].pc = "fetch"
  /\ LET r == catchBlock(chatMessages, spoken, calls[i].message, i) IN
       /\ chatMessages' = r.chat
       /\ spoken' = r.spoken
  /\ calls' = [calls EXCEPT ![i].pc = "done", ![i].outcome = "rejected"]
  /\ UNCHANGED <<ready, hasCapture, workerVars, textInput, now, voiceVars, notifications, userId, requests,
                 viewVars, realTimeData, reportVars, jobs, used>>

\* the fetch of call i resolves with a response (of any HTTP status) and
\* processMessage goes on to `await response.json()`
fetchResolves(i) ==
  /\ calls[i].pc = "fetch"
  /\ calls' = [calls EXCEPT ![i].pc = "json"]
  /\ UNCHANGED <<ready, hasCapture, workerVars, textInput, now, voiceVars, chatMessages, notifications, userId,
                 requests, spoken, viewVars, realTimeData, reportVars, jobs, used>>

\* response.json() of call i settles with the body the service sent and
\* processMessage resumes: in the try block, or in the catch block when the body
\* does not parse
jsonSettles(i, body) ==
  /\ calls[i].pc = "json"
  /\ LET r == IF body.parsable
                THEN tryBlock(chatMessages, spoken, body, calls[i].message, i)
                ELSE catchBlock(chatMessages, spoken, calls[i].message, i)
     IN /\ chatMessages' = r.chat
        /\ spoken' = r.spoken
  /\ calls' = [calls EXCEPT ![i].pc = "done",
                            ![i].outcome = IF ~body.parsable THEN "unparsable"
                                           ELSE IF body.response = "" THEN "noresponse"
                                           ELSE "replied",
                            ![i].body = body]
  /\ UNCHANGED <<ready, hasCapture, workerVars, textInput, now, voiceVars, notifications, userId, requests,
                 viewVars, realTimeData, reportVars, jobs, used>>

\* the global names the page's scripts bind: the DOMContentLoaded handler sets
\* window.app and nothing else
Globals == {"app"}

NotQuickReplies(element) == element.cls # "quick"

\* sendQuickReply: removes every quick-reply element, then addUserMessage and
\* processMessage up to its await of fetch
sendQuickReply(suggestion) ==
  LET turn == Len(calls) + 1
      chat == SelectSeq(chatMessages, NotQuickReplies)
  IN
  /\ Len(calls) < MaxSends
  /\ chatMessages' = showTypingIndicator(addUserMessage(chat, suggestion, "text", turn), turn)
  /\ \E id \in UserIds : userId' = IF userId = NoUser THEN id ELSE userId
  /\ requests' = Append(requests, [message |-> suggestion, language |-> "en-IN",
                                   user_id |-> userId'])
  /\ calls' = Append(calls, [message |-> suggestion, pc |-> "fetch", outcome |-> "pending",
                             body |-> NoBody])
  /\ UNCHANGED spoken

\* a click on button j of the quick-reply element at place k of the transcript.
\* Its inline handler is the text voiceBotApp.sendQuickReply('<suggestion>'),
\* evaluated in the global scope: with voiceBotApp unbound it throws a
\* ReferenceError and nothing else happens
quickReplyClick(k, j) ==
  /\ ready
  /\ k \in 1..Len(chatMessages)
  /\ chatMessages[k].cls = "quick"
  /\ j \in 1..Len(chatMessages[k].items)
  /\ used["click"] < MaxClicks
  /\ Use("click")
  /\ IF "voiceBotApp" \in Globals
       THEN sendQuickReply(chatMessages[k].items[j])
       ELSE UNCHANGED <<chatMessages, dispatchVars>>
  /\ UNCHANGED <<ready, hasCapture, workerVars, textInput, now, voiceVars, notifications, viewVars,
                 realTimeData, reportVars, jobs>>

Typed == \E v \in TypedInputs : sendTextMessage(v)
Rejected == \E i \in 1..Len(calls) : fetchRejects(i)
Resolved == \E i \in 1..Len(calls) : fetchResolves(i)
Parsed == \E i \in 1..Len(calls) : \E b \in Bodies : jsonSettles(i, b)

\* the dispatcher alone; the clock is not read by it and stands still
NextDispatch == init(0, 0, 0) \/ Typed \/ Rejected \/ Resolved \/ Parsed
SpecDispatch == Init /\ [][NextDispatch]_vars

\* the loading screen ends and a body that has arrived is read; nothing obliges
\* the chat service to answer a fetch
FairDispatch == SpecDispatch /\ WF_vars(init(0, 0, 0)) /\ WF_vars(Parsed)

\* the dispatcher while the chat service is failing: the fetch rejects, or its
\* response carries a body that is not JSON
Unparsed == \E i \in 1..Len(calls) : jsonSettles(i, Unparsable)
NextOffline == init(0, 0, 0) \/ Typed \/ Rejected \/ Resolved \/ Unparsed
SpecOffline == Init /\ [][NextOffline]_vars

\* the fallback responder alone: every call is rejected
TypedRule == \E v \in RuleInputs : sendTextMessage(v)
NextFallback == init(0, 0, 0) \/ TypedRule \/ Rejected
SpecFallback == Init /\ [][NextFallback]_vars

\* the chat service answers every message with suggested replies and the user
\* chooses among the quick replies shown
TypedShort == sendTextMessage(TxtEmi) \/ sendTextMessage(TxtHi)
Suggested == \E i \in 1..Len(calls) : jsonSettles(i, PayloadFull)
QuickReplyClicked ==
  \E k \in 1..Len(chatMessages) : \E j \in 1..2 : quickReplyClick(k, j)
NextQuickReplies == init(0, 0, 0) \/ TypedShort \/ Resolved \/ Suggested \/ QuickReplyClicked
SpecQuickReplies == Init /\ [][NextQuickReplies]_vars

\* ------------------------------------------------------- views and metrics
Sections == {"dashboard", "analytics", "customers", "inventory"}
LoadedSections == {"analytics", "customers", "inventory"}

\* Math.floor(Math.random() * n): its least and greatest value
RandomBelow(n) == {0, n - 1}

\* the three draws of one refresh step
Draws(nc, nl, nr) ==
  {[c |-> c, l |-> l, r |-> r] : c \in RandomBelow(nc), l \in RandomBelow(nl),
                                 r \in RandomBelow(nr)}

ZeroDraw == [c |-> 0, l |-> 0, r |-> 0]

\* switchSection, for a section whose element exists in the page; the load of an
\* analytics / customers / inventory section stops at its await
switchSection(w, sectionName) ==
  LET loading == sectionName \in LoadedSections
      c1 == IF loading
              THEN addSystemMessage(w.chat, MsgArg("Loading real-time data...", <<sectionName>>),
                                    "info")
              ELSE w.chat
  IN [w EXCEPT !.currentSection = sectionName,
               !.loads = IF loading THEN [w.loads EXCEPT ![sectionName] = @ + 1] ELSE w.loads,
               !.chat = addSystemMessage(c1, MsgArg("Switched to section", <<sectionName>>),
                                         "info")]

\* a variant that subtracts the draws
updateRealTimeMetricsDown(w, inc) ==
  [w EXCEPT !.realTimeData.conversations = @ - inc.c,
            !.realTimeData.leads = @ - inc.l,
            !.realTimeData.revenue = @ - inc.r]

\* updateRealTimeMetrics; inc: the three random draws
updateRealTimeMetrics(w, inc) ==
  [w EXCEPT !.realTimeData.conversations = @ + inc.c,
            !.realTimeData.leads = @ + inc.l,
            !.realTimeData.revenue = @ + inc.r]

\* generateBusinessReport up to its setTimeout
generateBusinessReport(w, d) ==
  [addNotification(w, d, Msg("Generating comprehensive business report..."), "info")
     EXCEPT !.jobs = @ + 1]

\* refreshAllData
refreshAllData(w, d, inc) ==
  LET w1 == addNotification(w, d, Msg("Refreshing all data sources..."), "info") IN
  IF w1.currentSection \in LoadedSections
    THEN [w1 EXCEPT !.loads[w1.currentSection] = @ + 1,
                    !.chat = addSystemMessage(w1.chat,
                               MsgArg("Loading real-time data...", <<w1.currentSection>>),
                               "info")]
    ELSE updateRealTimeMetrics(w1, inc)

\* toggleTheme
toggleTheme(w, d) ==
  addNotification([w EXCEPT !.isDarkMode = ~w.isDarkMode], d,
                  MsgArg("Switched to mode", <<IF w.isDarkMode THEN "light" ELSE "dark">>),
                  "info")

Download(kind, run, pages) == [kind |-> kind, run |-> run, pages |-> pages]

\* exportData
exportData(w) ==
  [w EXCEPT !.downloads = Append(@, Download("voicebot-data.json", 0, 0)),
            !.chat = addSystemMessage(w.chat, Msg("Data exported successfully!"), "success")]

\* showVoiceHelp
showVoiceHelp(w, d) ==
  addNotification(w, d, Msg("Available voice commands"), "info")

\* this.voiceCommands[command](): the action bound to the k-th trigger phrase
runCommand(w, k, d, inc) ==
  CASE k = 1 -> switchSection(w, "dashboard")
    [] k = 2 -> switchSection(w, "analytics")
    [] k = 3 -> switchSection(w, "customers")
    [] k = 4 -> switchSection(w, "inventory")
    [] k = 5 -> generateBusinessReport(w, d)
    [] k = 6 -> refreshAllData(w, d, inc)
    [] k = 7 -> toggleTheme(w, d)
    [] k = 8 -> toggleTheme(w, d)
    [] k = 9 -> exportData(w)
    [] k = 10 -> showVoiceHelp(w, d)

\* ------------------------------------------------------------ voice capture
\* recState is the platform recognizer's session: "inactive", "starting" (start()
\* accepted, onstart not yet delivered), "listening", "ending" (a result, an error
\* or stop() ended the session, onend not yet delivered)

\* a variant of startListening whose catch block reports nothing
startListeningSilent ==
  IF recognition
    THEN IF recState = "inactive"
           THEN /\ recState' = "starting"
                /\ UNCHANGED chatMessages
           ELSE UNCHANGED <<recState, chatMessages>>
    ELSE UNCHANGED <<recState, chatMessages>>

\* startListening: start() throws when a session is already under way
startListening ==
  IF recognition
    THEN IF recState = "inactive"
           THEN /\ recState' = "starting"
                /\ UNCHANGED chatMessages
           ELSE /\ chatMessages' = addSystemMessage(chatMessages,
                                     Msg("Could not start voice recognition."), "error")
                /\ UNCHANGED recState
    ELSE UNCHANGED <<recState, chatMessages>>

\* a variant of stopListening that restarts a recognizer that is not running
stopListeningRestarts ==
  /\ recState' = IF ~recognition THEN recState
                 ELSE IF recState \in {"starting", "listening"} THEN "ending"
                 ELSE IF recState = "inactive" THEN "starting"
                 ELSE recState
  /\ UNCHANGED chatMessages

\* stopListening: stop() ends a session that is under way
stopListening ==
  /\ recState' = IF recognition /\ recState \in {"starting", "listening"}
                   THEN "ending" ELSE recState
  /\ UNCHANGED chatMessages

\* the microphone button: toggleVoiceRecognition
toggleVoiceRecognition ==
  /\ ready
  /\ used["mic"] < MaxMic
  /\ Use("mic")
  /\ IF isListening THEN stopListening ELSE startListening
  /\ UNCHANGED <<ready, hasCapture, workerVars, textInput, now, recognition, isListening, notifications,
                 dispatchVars, viewVars, realTimeData, reportVars, jobs>>

\* recognition.onstart
onstart ==
  /\ recState = "starting"
  /\ recState' = "listening"
  /\ isListening' = TRUE
  /\ chatMessages' = addSystemMessage(chatMessages, Msg("Listening..."), "info")
  /\ UNCHANGED <<ready, hasCapture, workerVars, textInput, now, recognition, notifications, dispatchVars,
                 viewVars, realTimeData, reportVars, jobs, used>>

\* recognition.onerror
onerror ==
  /\ recState \in {"starting", "listening"}
  /\ recState' = "ending"
  /\ isListening' = FALSE
  /\ chatMessages' = addSystemMessage(chatMessages,
                       Msg("Voice recognition error. Please try again."), "error")
  /\ UNCHANGED <<ready, hasCapture, workerVars, textInput, now, recognition, notifications, dispatchVars,
                 viewVars, realTimeData, reportVars, jobs, used>>

\* a variant of onend that leaves the listening flag as it is
onendKeepsListening ==
  /\ recState \in {"listening", "ending"}
  /\ recState' = "inactive"
  /\ UNCHANGED <<ready, hasCapture, workerVars, textInput, now, recognition, isListening, chatMessages,
                 notifications, dispatchVars, viewVars, realTimeData, reportVars, jobs, used>>

\* recognition.onend
onend ==
  /\ recState \in {"listening", "ending"}
  /\ recState' = "inactive"
  /\ isListening' = FALSE
  /\ UNCHANGED <<ready, hasCapture, workerVars, textInput, now, recognition, chatMessages, notifications,
                 dispatchVars, viewVars, realTimeData, reportVars, jobs, used>>

\* a variant of the handler below that lacks the else: a matched utterance is
\* forwarded to handleVoiceInput as well
onresultAlsoForwards(utterance, d1, d2, inc) ==
  /\ recState = "listening"
  /\ used["voice"] < MaxVoice
  /\ Use("voice")
  /\ recState' = "ending"
  /\ LET transcript == toLowerCase(utterance)
         command == findCommand(transcript)
         turn == Len(calls) + 1
     IN IF command # NoCommand
          THEN /\ now + d1 + d2 <= MaxClock
               /\ command # 6 => inc = ZeroDraw
               /\ Len(calls) < MaxSends
               /\ LET w2 == addNotification(runCommand(World, command, d1, inc), d2,
                              MsgArg("Executed", voiceCommands[command]), "success")
                  IN SetWorld([w2 EXCEPT !.chat = showTypingIndicator(
                                 addUserMessage(w2.chat, transcript, "voice", turn), turn)])
               /\ \E id \in UserIds : userId' = IF userId = NoUser THEN id ELSE userId
               /\ requests' = Append(requests, [message |-> transcript,
                                                language |-> "en-IN", user_id |-> userId'])
               /\ calls' = Append(calls, [message |-> transcript, pc |-> "fetch",
                                          outcome |-> "pending", body |-> NoBody])
               /\ UNCHANGED spoken
          ELSE /\ d1 = 0 /\ d2 = 0 /\ inc = ZeroDraw
               /\ send(transcript, "voice")
               /\ UNCHANGED <<notifications, now, viewVars, realTimeData, jobs, downloads>>
  /\ UNCHANGED <<ready, hasCapture, workerVars, textInput, recognition, isListening, reports, progressUI, rendered>>

\* a variant of the handler below that posts the confirmation before it runs the
\* action
onresultConfirmsFirst(utterance, d1, d2, inc) ==
  /\ recState = "listening"
  /\ used["voice"] < MaxVoice
  /\ Use("voice")
  /\ recState' = "ending"
  /\ LET transcript == toLowerCase(utterance)
         command == findCommand(transcript)
     IN IF command # NoCommand
          THEN /\ now + d1 + d2 <= MaxClock
               /\ command # 6 => inc = ZeroDraw
               /\ SetWorld(runCommand(addNotification(World, d2,
                               MsgArg("Executed", voiceCommands[command]), "success"),
                             command, d1, inc))
               /\ UNCHANGED dispatchVars
          ELSE /\ d1 = 0 /\ d2 = 0 /\ inc = ZeroDraw
               /\ send(transcript, "voice")
               /\ UNCHANGED <<notifications, now, viewVars, realTimeData, jobs, downloads>>
  /\ UNCHANGED <<ready, hasCapture, workerVars, textInput, recognition, isListening, reports, progressUI, rendered>>

\* recognition.onresult as setupVoiceCommands installs it: a trigger phrase runs
\* its action and posts the confirmation, anything else goes to handleVoiceInput.
\* d1, d2: clock delays before the action's and the confirmation's notification;
\* inc: the random draws of a metrics refresh
onresult(utterance, d1, d2, inc) ==
  /\ recState = "listening"
  /\ used["voice"] < MaxVoice
  /\ Use("voice")
  /\ recState' = "ending"
  /\ LET transcript == toLowerCase(utterance)
         command == findCommand(transcript)
     IN IF command # NoCommand
          THEN /\ now + d1 + d2 <= MaxClock
               /\ command # 6 => inc = ZeroDraw
               /\ SetWorld(addNotification(runCommand(World, command, d1, inc), d2,
                             MsgArg("Executed", voiceCommands[command]), "success"))
               /\ UNCHANGED dispatchVars
          ELSE /\ d1 = 0 /\ d2 = 0 /\ inc = ZeroDraw
               /\ send(transcript, "voice")
               /\ UNCHANGED <<notifications, now, viewVars, realTimeData, jobs, downloads>>
  /\ UNCHANGED <<ready, hasCapture, workerVars, textInput, recognition, isListening, reports, progressUI, rendered>>

\* the timeout set by generateBusinessReport fires
businessReportReady(d) ==
  /\ jobs > 0
  /\ now + d <= MaxClock
  /\ SetWorld(addNotification(
       [World EXCEPT !.jobs = @ - 1,
                     !.downloads = Append(@, Download("business-report.json", 0, 0))],
       d, Msg("Business report generated and downloaded!"), "success"))
  /\ UNCHANGED <<ready, hasCapture, workerVars, textInput, voiceVars, dispatchVars, reports, progressUI, rendered, used>>

\* loadAnalyticsSection / loadCustomersSection / loadInventorySection resume with
\* their data (the fetch* methods always return a collection) and render it
loadSection(section) ==
  /\ loads[section] > 0
  /\ loads' = [loads EXCEPT ![section] = @ - 1]
  /\ chatMessages' = addSystemMessage(chatMessages,
                       MsgArg("data loaded successfully!", <<section>>), "success")
  /\ rendered' = rendered \cup {section}
  /\ UNCHANGED <<ready, hasCapture, workerVars, textInput, now, voiceVars, notifications, dispatchVars,
                 currentSection, isDarkMode, realTimeData, reports, progressUI, downloads,
                 jobs, used>>

Mic == toggleVoiceRecognition
\* the command each utterance resolves to, and the draws its action consumes
\* (only refreshAllData draws)
CommandOf == [u \in Utterances \cup CommandUtterances |-> findCommand(toLowerCase(u))]
DrawsFor(u) == IF CommandOf[u] = 6 THEN Draws(5, 2, 2000) ELSE {ZeroDraw}
Heard == \E u \in Utterances \cup CommandUtterances : \E inc \in DrawsFor(u) : onresult(u, 0, 0, inc)
Loaded == \E s \in LoadedSections : loadSection(s)
Timeout == businessReportReady(0)

\* voice capture and the command layer; the dispatcher behind them answers every
\* forwarded utterance with a network error, and the clock stands still
NextVoice ==
  \/ init(0, 0, 0)
  \/ Mic \/ onstart \/ onerror \/ onend \/ Heard \/ Loaded \/ Timeout
  \/ Rejected
SpecVoice == Init /\ [][NextVoice]_vars

\* ------------------------------------------------------------ refresh timers
\* the setInterval callback of startRealTimeUpdates; inc: its three random draws
realTimeUpdate(inc) ==
  /\ ready
  /\ used["tick"] < MaxTicks
  /\ Fire("updates")
  /\ realTimeData' = [realTimeData EXCEPT !.conversations = @ + inc.c,
                                          !.leads = @ + inc.l,
                                          !.revenue = @ + inc.r]
  /\ UNCHANGED <<ready, hasCapture, workerVars, textInput, now, voiceVars, chatMessages, notifications,
                 dispatchVars, viewVars, reportVars, jobs>>

\* the first setInterval callback of startRealTimeMonitoring
realTimeMonitoring(inc) ==
  /\ ready
  /\ used["tick"] < MaxTicks
  /\ Fire("monitoring")
  /\ SetWorld(updateRealTimeMetrics(World, inc))
  /\ UNCHANGED <<ready, hasCapture, workerVars, textInput, voiceVars, dispatchVars, reports, progressUI, rendered>>

\* the second setInterval callback of startRealTimeMonitoring: checkInventoryAlerts
\* up to its await of fetchInventoryData
inventoryMonitoring ==
  /\ ready
  /\ used["tick"] < MaxTicks
  /\ Use("tick")
  /\ loads' = [loads EXCEPT !["alerts"] = @ + 1]
  /\ UNCHANGED <<ready, hasCapture, workerVars, textInput, now, voiceVars, chatMessages, notifications,
                 dispatchVars, currentSection, isDarkMode, realTimeData, reportVars, jobs>>

\* what a data source answers: a payload the transformation accepts, a rejected
\* fetch, a body response.json() rejects, a body the transformation throws on
SourcePayloads == {"usable", "unreachable", "unparsable", "malformed"}
Collections == {"analytics", "customers", "inventory"}

\* fetchAnalyticsData / fetchCustomersData / fetchInventoryData: the whole body
\* is one try block whose catch returns generateMock*; the result says where
\* the returned collection came from
fetchData(payload) == IF payload = "usable" THEN "remote" ELSE "mock"

\* inventory items as fetchInventoryData and generateMockInventory build them:
\* stock is Math.floor(Math.random() * 50) + 10, status an independent draw
ItemSamples ==
  {[stock |-> st, status |-> status] :
     st \in {10, 14, 15, 59}, status \in {"Low Stock", "In Stock"}}
Inventories == {<<a, b>> : a \in ItemSamples, b \in ItemSamples}

\* generateMockInventory: the collections one call can return, its stock and
\* status fields being drawn with Math.random() at every call
generateMockInventory == Inventories
\* an inventory with nothing low on stock
SampleInventory ==
  <<[stock |-> 15, status |-> "In Stock"], [stock |-> 59, status |-> "In Stock"]>>

\* inventory.filter(item => item.stock < 15).length
lowStockCount(inventory) ==
  Cardinality({k \in 1..Len(inventory) : inventory[k].stock < LowStockThreshold})

\* checkInventoryAlerts resumes with the inventory fetchInventoryData returned;
\* payload: what the inventory source answered
checkInventoryAlerts(payload, inventory, d) ==
  /\ loads["alerts"] > 0
  /\ inventory \in (IF fetchData(payload) = "mock" THEN generateMockInventory ELSE Inventories)
  /\ now + d <= MaxClock
  /\ LET w == [World EXCEPT !.loads["alerts"] = @ - 1]
         n == lowStockCount(inventory)
     IN IF n > 0
          THEN SetWorld(addNotification(w, d, MsgNum("items are running low on stock!", n),
                                        "warning"))
          ELSE /\ d = 0
               /\ SetWorld(w)
  /\ UNCHANGED <<ready, hasCapture, workerVars, textInput, voiceVars, dispatchVars, reports, progressUI, rendered,
                 used>>

\* a click on a navigation item: switchSection
navClick(section) ==
  /\ ready
  /\ used["click"] < MaxClicks
  /\ Use("click")
  /\ SetWorld(switchSection(World, section))
  /\ UNCHANGED <<ready, hasCapture, workerVars, textInput, voiceVars, dispatchVars, reports, progressUI, rendered>>

Ticks ==
  \/ \E inc \in Draws(3, 2, 1000) : realTimeUpdate(inc)
  \/ \E inc \in Draws(5, 2, 2000) : realTimeMonitoring(inc)
Refresh == \E inc \in Draws(5, 2, 2000) : onresult(UttRefresh, 0, 0, inc)

\* the timers that write the metrics, with the spoken "refresh data" command as the manual refresh
NextMetrics ==
  \/ init(0, 0, 0) \/ Ticks
  \/ Mic \/ onstart \/ onend \/ Refresh
SpecMetrics == Init /\ [][NextMetrics]_vars

\* the three interval timers of the session and the inventory check they start
Alerts ==
  \E payload \in SourcePayloads : \E inventory \in Inventories :
    checkInventoryAlerts(payload, inventory, 0)
NextMonitor == init(0, 0, 0) \/ Ticks \/ inventoryMonitoring \/ Alerts
SpecMonitor == Init /\ [][NextMonitor]_vars

\* window.app.stopListening() called as it stands, whatever the capture state
stopCapture ==
  /\ ready
  /\ stopListening
  /\ UNCHANGED <<ready, hasCapture, workerVars, textInput, now, recognition, isListening, notifications,
                 dispatchVars, viewVars, realTimeData, reportVars, jobs, used>>

\* the capture state machine: the microphone button, direct stops, the
\* recognizer's events, with one command utterance and one plain utterance
HeardOne == \E u \in {UttShowDashboard, UttHello} : onresult(u, 0, 0, ZeroDraw)
NextCapture ==
  \/ init(0, 0, 0) \/ Mic \/ stopCapture
  \/ onstart \/ onerror \/ onend \/ HeardOne
SpecCapture == Init /\ [][NextCapture]_vars
\* the recognizer delivers the start and end events of a session it has begun
FairCapture == SpecCapture /\ WF_vars(init(0, 0, 0)) /\ WF_vars(onstart) /\ WF_vars(onend)

\* the command recognizer alone: sessions in which every utterance is heard
NextRecognize == init(0, 0, 0) \/ Mic \/ onstart \/ onend \/ Heard
SpecRecognize == Init /\ [][NextRecognize]_vars

\* the notification feed: start-up, the service-worker notice and spoken
\* commands, with the clock advancing between posts or not
Startup == \E d1, d2, d3 \in 0..1 : init(d1, d2, d3)
HeardCommand ==
  \E u \in {UttShowDashboard, UttDarkMode, UttLightThenDark} : \E d1, d2 \in 0..1 :
    onresult(u, d1, d2, ZeroDraw)
NextFeed == Startup \/ swRegistered \/ Mic \/ onstart \/ onend \/ HeardCommand
SpecFeed == Init /\ [][NextFeed]_vars

\* ---------------------------------------------------------- report pipeline
\* reports[r].pc: where generateAdvancedPDFReport invocation r is suspended:
\* "fetchAnalytics", "fetchCustomers", "fetchInventory" (awaiting that fetch*),
\* "chart1".."chart4" (awaiting that html2canvas capture), "timer" (saved, the
\* 1 s timeout pending), "done", "aborted" (the catch block has run).
\* failedAt: the stage that threw, "none" if none so far; chartFailed: one of
\* the captures so far failed.
ChartPcs == <<"chart1", "chart2", "chart3", "chart4">>
Stages == {"create", "cover", "analytics", "customers", "inventory", "insights", "save"}
LateStages == {"analytics", "customers", "inventory", "insights", "save"}
Compiling(r) == reports[r].pc \notin {"timer", "done", "aborted"}

\* showReportProgress
showReportProgress(ui, r) == Append(ui, [run |-> r, percent |-> 0])

\* updateReportProgress: getElementById('progressBar') is the first bar in the page
updateReportProgress(ui, percent) ==
  IF ui = <<>> THEN ui ELSE [ui EXCEPT ![1].percent = percent]

\* hideReportProgress: getElementById('reportProgress') is the first one in the page
hideReportProgress(ui) == IF ui = <<>> THEN ui ELSE Tail(ui)

\* the report button of the analytics view: generateAdvancedPDFReport up to its
\* first await; ok: window.jspdf is there and new jsPDF succeeds
generateAdvancedPDFReport(ok, d) ==
  LET r == Len(reports) + 1
      fresh == [pc |-> "fetchAnalytics", pages |-> 1, chartFailed |-> FALSE,
                failedAt |-> "none", percent |-> 0,
                data |-> [c \in Collections |-> "none"], inventory |-> <<>>]
  IN
  /\ ready
  /\ "analytics" \in rendered
  /\ Len(reports) < MaxReports
  /\ IF ok
       THEN /\ d = 0
            /\ reports' = Append(reports, fresh)
            /\ progressUI' = showReportProgress(progressUI, r)
            /\ UNCHANGED <<uiVars, viewVars, realTimeData, jobs, downloads>>
       ELSE /\ now + d <= MaxClock
            /\ reports' = Append(reports, [fresh EXCEPT !.pc = "aborted",
                                                        !.failedAt = "create"])
            /\ progressUI' = hideReportProgress(showReportProgress(progressUI, r))
            /\ SetWorld(addNotification(World, d,
                          Msg("PDF generation failed. Please try again."), "error"))
  /\ UNCHANGED <<ready, hasCapture, workerVars, textInput, voiceVars, dispatchVars, rendered, used>>

\* a variant of the step below in which a source that is not usable reaches the
\* catch block of generateAdvancedPDFReport
reportFetchedAborts(r, payload) ==
  /\ reports[r].pc \in {"fetchAnalytics", "fetchCustomers"}
  /\ IF payload = "usable"
       THEN /\ reports' = [reports EXCEPT
                             ![r].pc = IF @ = "fetchAnalytics" THEN "fetchCustomers"
                                       ELSE "fetchInventory",
                             ![r].data = IF reports[r].pc = "fetchAnalytics"
                                           THEN [@ EXCEPT !.analytics = "remote"]
                                           ELSE [@ EXCEPT !.customers = "remote"]]
            /\ UNCHANGED <<uiVars, viewVars, realTimeData, jobs, downloads, progressUI>>
       ELSE /\ reports' = [reports EXCEPT ![r].pc = "aborted", ![r].failedAt = "create"]
            /\ progressUI' = hideReportProgress(progressUI)
            /\ SetWorld(addNotification(World, 0,
                          Msg("PDF generation failed. Please try again."), "error"))
  /\ UNCHANGED <<ready, hasCapture, workerVars, textInput, voiceVars, dispatchVars, rendered, used>>

\* fetchAnalyticsData / fetchCustomersData of invocation r returns, with the
\* remote collection or the mock one; payload: what the source answered
reportFetched(r, payload) ==
  /\ reports[r].pc \in {"fetchAnalytics", "fetchCustomers"}
  /\ reports' = [reports EXCEPT
                   ![r].pc = IF @ = "fetchAnalytics" THEN "fetchCustomers"
                             ELSE "fetchInventory",
                   ![r].data = IF reports[r].pc = "fetchAnalytics"
                                 THEN [@ EXCEPT !.analytics = fetchData(payload)]
                                 ELSE [@ EXCEPT !.customers = fetchData(payload)]]
  /\ UNCHANGED <<ready, hasCapture, workerVars, textInput, voiceVars, uiVars, dispatchVars, viewVars, realTimeData,
                 progressUI, rendered, downloads, jobs, used>>

\* fetchInventoryData of invocation r returns: progress 20, the cover page,
\* progress 30, a new page and addAnalyticsPage up to its first html2canvas.
\* payload: what the inventory source answered; inventory: the collection
\* fetchInventoryData returned; ok: addCoverPage and the page header did not throw
reportCover(r, payload, inventory, ok, d) ==
  /\ reports[r].pc = "fetchInventory"
  /\ inventory \in (IF fetchData(payload) = "mock" THEN generateMockInventory ELSE Inventories)
  /\ IF ok
       THEN /\ d = 0
            /\ reports' = [reports EXCEPT ![r].pc = "chart1", ![r].pages = 2,
                                          ![r].percent = 30,
                                          ![r].data.inventory = fetchData(payload),
                                          ![r].inventory = inventory]
            /\ progressUI' = updateReportProgress(updateReportProgress(progressUI, 20), 30)
            /\ UNCHANGED <<uiVars, viewVars, realTimeData, jobs, downloads>>
       ELSE /\ now + d <= MaxClock
            /\ reports' = [reports EXCEPT ![r].pc = "aborted", ![r].failedAt = "cover",
                                          ![r].percent = 20,
                                          ![r].data.inventory = fetchData(payload),
                                          ![r].inventory = inventory]
            /\ progressUI' = hideReportProgress(updateReportProgress(progressUI, 20))
            /\ SetWorld(addNotification(World, d,
                          Msg("PDF generation failed. Please try again."), "error"))
  /\ UNCHANGED <<ready, hasCapture, workerVars, textInput, voiceVars, dispatchVars, rendered, used>>

\* a variant of the step below in which a failed capture reaches the catch block
\* of generateAdvancedPDFReport
reportChartAborts(r, ok, d) ==
  /\ \E k \in 1..3 : reports[r].pc = ChartPcs[k]
  /\ LET k == CHOOSE k \in 1..3 : reports[r].pc = ChartPcs[k] IN
       IF ok
         THEN /\ d = 0
              /\ reports' = [reports EXCEPT ![r].pc = ChartPcs[k + 1]]
              /\ UNCHANGED <<uiVars, viewVars, realTimeData, jobs, downloads, progressUI>>
         ELSE /\ now + d <= MaxClock
              /\ reports' = [reports EXCEPT ![r].pc = "aborted",
                                            ![r].chartFailed = TRUE]
              /\ progressUI' = hideReportProgress(progressUI)
              /\ SetWorld(addNotification(World, d,
                            Msg("PDF generation failed. Please try again."), "error"))
  /\ UNCHANGED <<ready, hasCapture, workerVars, textInput, voiceVars, dispatchVars, rendered, used>>

\* one of the first three html2canvas captures of invocation r settles; ok: the
\* capture and pdf.addImage succeeded.  A failure is caught inside addAnalyticsPage
\* (console.warn) and the loop goes on to the next chart.  d is not used
reportChart(r, ok, d) ==
  /\ \E k \in 1..3 : reports[r].pc = ChartPcs[k]
  /\ d = 0
  /\ LET k == CHOOSE k \in 1..3 : reports[r].pc = ChartPcs[k] IN
       reports' = [reports EXCEPT ![r].pc = ChartPcs[k + 1],
                                  ![r].chartFailed = @ \/ ~ok]
  /\ UNCHANGED <<ready, hasCapture, workerVars, textInput, voiceVars, uiVars, dispatchVars, viewVars, realTimeData,
                 progressUI, rendered, downloads, jobs, used>>

\* a variant of the table below in which progress 100 is reported before pdf.save
reachedAtEarlyHundred(failAt) ==
  CASE failAt = "analytics" -> <<2, 30>>
    [] failAt = "customers" -> <<3, 50>>
    [] failAt = "inventory" -> <<4, 70>>
    [] failAt = "insights" -> <<5, 85>>
    [] failAt = "save" -> <<5, 100>>
    [] failAt = "none" -> <<5, 100>>

\* the pages and progress a run has reached when stage `failAt` throws ("none": when
\* it has saved): <<pages, percent>>
reachedAt(failAt) ==
  CASE failAt = "analytics" -> <<2, 30>>
    [] failAt = "customers" -> <<3, 50>>
    [] failAt = "inventory" -> <<4, 70>>
    [] failAt = "insights" -> <<5, 85>>
    [] failAt = "save" -> <<5, 95>>
    [] failAt = "none" -> <<5, 100>>

\* a variant of the step below that saves what has been assembled when a stage
\* throws
reportFinishSavesPartial(r, ok, failAt, d) ==
  /\ reports[r].pc = "chart4"
  /\ LET failed == reports[r].chartFailed \/ ~ok
         at == reachedAt(failAt)
         ui == IF at[2] > 30 THEN updateReportProgress(progressUI, at[2]) ELSE progressUI
     IN IF failAt = "none"
          THEN /\ d = 0
               /\ reports' = [reports EXCEPT ![r].pc = "timer",
                                             ![r].chartFailed = failed,
                                             ![r].pages = at[1], ![r].percent = at[2]]
               /\ progressUI' = ui
               /\ downloads' = Append(downloads,
                                      Download("VoiceBot-Enterprise-Report.pdf", r, at[1]))
               /\ UNCHANGED <<uiVars, viewVars, realTimeData, jobs>>
          ELSE /\ now + d <= MaxClock
               /\ reports' = [reports EXCEPT ![r].pc = "aborted",
                                             ![r].chartFailed = failed,
                                             ![r].failedAt = failAt,
                                             ![r].pages = at[1], ![r].percent = at[2]]
               /\ progressUI' = hideReportProgress(ui)
               /\ SetWorld([addNotification(World, d,
                              Msg("PDF generation failed. Please try again."), "error")
                            EXCEPT !.downloads = Append(@,
                                     Download("VoiceBot-Enterprise-Report.pdf", r, at[1]))])
  /\ UNCHANGED <<ready, hasCapture, workerVars, textInput, voiceVars, dispatchVars, rendered, used>>

\* the last html2canvas capture of invocation r settles and the rest of the
\* pipeline runs: the KPI lines, then the customers, inventory and insights pages
\* with their progress reports, pdf.save, progress 100 and the 1 s timeout.
\* ok: the capture succeeded; failAt: the stage that throws, or "none"
reportFinish(r, ok, failAt, d) ==
  /\ reports[r].pc = "chart4"
  /\ LET failed == reports[r].chartFailed \/ ~ok
         at == reachedAt(failAt)
         ui == IF at[2] > 30 THEN updateReportProgress(progressUI, at[2]) ELSE progressUI
     IN IF failAt = "none"
          THEN /\ d = 0
               /\ reports' = [reports EXCEPT ![r].pc = "timer",
                                             ![r].chartFailed = failed,
                                             ![r].pages = at[1], ![r].percent = at[2]]
               /\ progressUI' = ui
               /\ downloads' = Append(downloads,
                                      Download("VoiceBot-Enterprise-Report.pdf", r, at[1]))
               /\ UNCHANGED <<uiVars, viewVars, realTimeData, jobs>>
          ELSE /\ now + d <= MaxClock
               /\ reports' = [reports EXCEPT ![r].pc = "aborted",
                                             ![r].chartFailed = failed,
                                             ![r].failedAt = failAt,
                                             ![r].pages = at[1], ![r].percent = at[2]]
               /\ progressUI' = hideReportProgress(ui)
               /\ SetWorld(addNotification(World, d,
                             Msg("PDF generation failed. Please try again."), "error"))
  /\ UNCHANGED <<ready, hasCapture, workerVars, textInput, voiceVars, dispatchVars, rendered, used>>

\* the 1 s timeout of invocation r fires: hideReportProgress and the success notification
reportDone(r, d) ==
  /\ reports[r].pc = "timer"
  /\ now + d <= MaxClock
  /\ reports' = [reports EXCEPT ![r].pc = "done"]
  /\ progressUI' = hideReportProgress(progressUI)
  /\ SetWorld(addNotification(World, d,
                Msg("Advanced PDF report with charts generated successfully!"), "success"))
  /\ UNCHANGED <<ready, hasCapture, workerVars, textInput, voiceVars, dispatchVars, rendered, used>>

Report == \E ok \in BOOLEAN : generateAdvancedPDFReport(ok, 0)
\* every data source answers with a usable payload
Fetched == \E r \in 1..Len(reports) : reportFetched(r, "usable")
Cover ==
  \E r \in 1..Len(reports) : \E ok \in BOOLEAN :
    reportCover(r, "usable", SampleInventory, ok, 0)
Chart == \E r \in 1..Len(reports) : \E ok \in BOOLEAN : reportChart(r, ok, 0)
Finish ==
  \E r \in 1..Len(reports) : \E ok \in BOOLEAN : \E failAt \in LateStages \cup {"none"} :
    reportFinish(r, ok, failAt, 0)
Done == \E r \in 1..Len(reports) : reportDone(r, 0)

\* the user opens the analytics view when another view is shown
OpenAnalytics == currentSection # "analytics" /\ navClick("analytics")

\* the analytics view and its report button; the clock stands still
NextReport ==
  \/ init(0, 0, 0) \/ OpenAnalytics \/ loadSection("analytics")
  \/ Report \/ Fetched \/ Cover \/ Chart \/ Finish \/ Done
SpecReport == Init /\ [][NextReport]_vars

\* the data sources answer in every way and nothing else fails; the report
\* button is pressed only when no compilation is under way
ReportWhenIdle ==
  (\A r \in 1..Len(reports) : ~Compiling(r)) /\ generateAdvancedPDFReport(TRUE, 0)
Collected ==
  \E r \in 1..Len(reports) : \E payload \in SourcePayloads : reportFetched(r, payload)
CoverAfter ==
  \E r \in 1..Len(reports) : \E payload \in SourcePayloads :
    reportCover(r, payload, SampleInventory, TRUE, 0)
Charted == \E r \in 1..Len(reports) : reportChart(r, TRUE, 0)
Finished == \E r \in 1..Len(reports) : reportFinish(r, TRUE, "none", 0)
NextCollect ==
  \/ init(0, 0, 0) \/ OpenAnalytics \/ loadSection("analytics")
  \/ ReportWhenIdle \/ Collected \/ CoverAfter \/ Charted \/ Finished \/ Done
SpecCollect == Init /\ [][NextCollect]_vars

\* the inventory source is out of reach at every compilation, the other two
\* answer; the report button is pressed only when no compilation is under way
CoverMock ==
  \E r \in 1..Len(reports) : \E inventory \in generateMockInventory :
    reportCover(r, "unreachable", inventory, TRUE, 0)
NextMock ==
  \/ init(0, 0, 0) \/ OpenAnalytics \/ loadSection("analytics")
  \/ ReportWhenIdle \/ Fetched \/ CoverMock \/ Charted \/ Finished \/ Done
SpecMock == Init /\ [][NextMock]_vars

\* ----------------------------------------------------------- service worker
\* sw.js, which the page registers; it runs beside the page and shares no state
\* with it
CACHE_NAME == "voicebot-enterprise-v1.0.0"
CACHE_URLS == <<"/", "/index.html", "/styles.css", "/script.js", "/manifest.json">>

\* the names under which caches of this origin may exist
CacheNames == {CACHE_NAME, "voicebot-enterprise-v0.9.0", "voicebot-static"}

\* a Response: its status, its type and where it was produced
Response(status, type, origin) == [status |-> status, type |-> type, origin |-> origin]
NoResponse == Response(0, "none", "none")
NetworkError == Response(0, "error", "network")
\* what the network may answer to the handler's fetch
NetResponses ==
  {Response(200, "basic", "network"), Response(404, "basic", "network"),
   Response(200, "cors", "network"), Response(0, "opaque", "network")}

Request(method, url) == [method |-> method, url |-> url]
\* the requests the controlled page issues
Requests == {Request("GET", "/"), Request("GET", "/api/health"),
             Request("POST", "/api/chat")}

\* caches.open(name): the cache is created when it does not exist
cachesOpen(cs, name) ==
  IF \E k \in 1..Len(cs) : cs[k].name = name
    THEN cs
    ELSE Append(cs, [name |-> name, entries |-> {}])

\* cache.put(request, response) on the cache called name: replaces the entry of
\* the same URL
cachePut(cs, name, url, response) ==
  [k \in 1..Len(cs) |->
     IF cs[k].name = name
       THEN [cs[k] EXCEPT !.entries =
               {e \in @ : e.url # url} \cup {[url |-> url, response |-> response]}]
       ELSE cs[k]]

\* cache.addAll(urls) once every fetch succeeded: one put per URL
RECURSIVE cacheAddAll(_, _, _)
cacheAddAll(cs, name, urls) ==
  IF urls = <<>> THEN cs
  ELSE cacheAddAll(cachePut(cs, name, Head(urls), Response(200, "basic", "install")),
                   name, Tail(urls))

\* caches.delete(name)
RECURSIVE cachesDelete(_, _)
cachesDelete(cs, name) ==
  IF cs = <<>> THEN <<>>
  ELSE IF Head(cs).name = name THEN Tail(cs)
  ELSE <<Head(cs)>> \o cachesDelete(Tail(cs), name)

\* caches.match(request): the entry of the first cache, in creation order, that
\* holds the request's URL; only GET requests match
cachesMatch(cs, request) ==
  LET holding == {k \in 1..Len(cs) : \E e \in cs[k].entries : e.url = request.url} IN
  IF request.method # "GET" \/ holding = {} THEN NoResponse
  ELSE LET k == CHOOSE i \in holding : \A j \in holding : i <= j
       IN (CHOOSE e \in cs[k].entries : e.url = request.url).response

\* an earlier version of the worker, or other code of the origin, stores a
\* response in a cache before this version is activated
earlierVersion(name, url) ==
  /\ swPhase \in {"parsed", "installing", "installed"}
  /\ cacheStorage' = cachePut(cachesOpen(cacheStorage, name), name, url,
                              Response(200, "basic", "earlier"))
  /\ cacheStorage' # cacheStorage
  /\ UNCHANGED <<pageVars, swPhase, pendingDeletes, fetchEvents>>

\* the install event: caches.open(CACHE_NAME) resolves and cache.addAll is called
installEvent ==
  /\ swPhase = "parsed"
  /\ swPhase' = "installing"
  /\ cacheStorage' = cachesOpen(cacheStorage, CACHE_NAME)
  /\ UNCHANGED <<pageVars, pendingDeletes, fetchEvents>>

\* cache.addAll(CACHE_URLS) settles.  ok: every resource was fetched with an ok
\* status; then all of them are stored, skipWaiting is called and the promise
\* given to waitUntil fulfils.  Otherwise nothing is stored, the promise rejects
\* and the worker is discarded
addAllSettles(ok) ==
  /\ swPhase = "installing"
  /\ IF ok
       THEN /\ swPhase' = "installed"
            /\ cacheStorage' = cacheAddAll(cacheStorage, CACHE_NAME, CACHE_URLS)
       ELSE /\ swPhase' = "redundant"
            /\ UNCHANGED cacheStorage
  /\ UNCHANGED <<pageVars, pendingDeletes, fetchEvents>>

\* a variant of the selection below that spares no cache
staleCachesAll(cacheNames) == cacheNames

\* the names the activate handler calls caches.delete on
staleCaches(cacheNames) == {cacheName \in cacheNames : cacheName # CACHE_NAME}

\* the activate event: caches.keys() resolves and the handler calls caches.delete
\* on every other cache
activateEvent ==
  /\ swPhase = "installed"
  /\ swPhase' = "activating"
  /\ pendingDeletes' = staleCaches({cacheStorage[k].name : k \in 1..Len(cacheStorage)})
  /\ UNCHANGED <<pageVars, cacheStorage, fetchEvents>>

\* one of the caches.delete calls settles
cacheDeleted(cacheName) ==
  /\ swPhase = "activating"
  /\ cacheName \in pendingDeletes
  /\ pendingDeletes' = pendingDeletes \ {cacheName}
  /\ cacheStorage' = cachesDelete(cacheStorage, cacheName)
  /\ UNCHANGED <<pageVars, swPhase, fetchEvents>>

\* Promise.all has fulfilled, clients.claim() resolves and the promise given to
\* waitUntil fulfils
activated ==
  /\ swPhase = "activating"
  /\ pendingDeletes = {}
  /\ swPhase' = "activated"
  /\ UNCHANGED <<pageVars, cacheStorage, pendingDeletes, fetchEvents>>

\* a fetch event reaches the active worker: respondWith(caches.match(request)...)
fetchEvent(request) ==
  /\ swPhase = "activated"
  /\ Len(fetchEvents) < MaxFetches
  /\ fetchEvents' = Append(fetchEvents,
       [request |-> request, pc |-> "match", answer |-> NoResponse, network |-> 0,
        fetched |-> NoResponse, store |-> "none"])
  /\ UNCHANGED <<pageVars, swPhase, cacheStorage, pendingDeletes>>

\* caches.match(event.request) of event e resolves: a cached response is
\* returned, otherwise fetch(fetchRequest) is called
matchResolves(e) ==
  /\ fetchEvents[e].pc = "match"
  /\ LET response == cachesMatch(cacheStorage, fetchEvents[e].request) IN
       fetchEvents' =
         IF response # NoResponse
           THEN [fetchEvents EXCEPT ![e].pc = "done", ![e].answer = response]
           ELSE [fetchEvents EXCEPT ![e].pc = "network", ![e].network = @ + 1]
  /\ UNCHANGED <<pageVars, swPhase, cacheStorage, pendingDeletes>>

\* a variant of the test below that accepts a response of any type
validResponseAnyType(response) == response.status = 200

\* the negation of line 57's test: the response is worth caching
validResponse(response) == response.status = 200 /\ response.type = "basic"

\* the fetch of event e settles.  A rejection goes to the catch handler, which
\* calls caches.match('/'); an invalid response is returned as it is; a valid one
\* is returned after caches.open(CACHE_NAME) was called to store its clone
networkSettles(e, response) ==
  /\ fetchEvents[e].pc = "network"
  /\ fetchEvents' =
       IF response = NetworkError
         THEN [fetchEvents EXCEPT ![e].pc = "fallback"]
       ELSE IF ~validResponse(response)
         THEN [fetchEvents EXCEPT ![e].pc = "done", ![e].answer = response,
                                  ![e].fetched = response]
       ELSE [fetchEvents EXCEPT ![e].pc = "done", ![e].answer = response,
                                ![e].fetched = response, ![e].store = "pending"]
  /\ UNCHANGED <<pageVars, swPhase, cacheStorage, pendingDeletes>>

\* caches.open(CACHE_NAME) of event e resolves and cache.put is called: it stores
\* the clone, or rejects when the request is not a GET
putSettles(e) ==
  /\ fetchEvents[e].store = "pending"
  /\ IF fetchEvents[e].request.method = "GET"
       THEN /\ cacheStorage' = cachePut(cachesOpen(cacheStorage, CACHE_NAME), CACHE_NAME,
                                        fetchEvents[e].request.url, fetchEvents[e].fetched)
            /\ fetchEvents' = [fetchEvents EXCEPT ![e].store = "stored"]
       ELSE /\ cacheStorage' = cachesOpen(cacheStorage, CACHE_NAME)
            /\ fetchEvents' = [fetchEvents EXCEPT ![e].store = "refused"]
  /\ UNCHANGED <<pageVars, swPhase, pendingDeletes>>

\* caches.match('/') of event e's catch handler resolves
fallbackResolves(e) ==
  /\ fetchEvents[e].pc = "fallback"
  /\ fetchEvents' = [fetchEvents EXCEPT
       ![e].pc = "done", ![e].answer = cachesMatch(cacheStorage, Request("GET", "/"))]
  /\ UNCHANGED <<pageVars, swPhase, cacheStorage, pendingDeletes>>

Earlier == \E name \in CacheNames : \E url \in {"/", "/api/health"} : earlierVersion(name, url)
AddAll == \E ok \in BOOLEAN : addAllSettles(ok)
Deleted == \E cacheName \in CacheNames : cacheDeleted(cacheName)
Fetch == \E request \in Requests : fetchEvent(request)
Matched == \E e \in 1..Len(fetchEvents) : matchResolves(e)
Network ==
  \E e \in 1..Len(fetchEvents) : \E response \in NetResponses \cup {NetworkError} :
    networkSettles(e, response)
Put == \E e \in 1..Len(fetchEvents) : putSettles(e)
Fallback == \E e \in 1..Len(fetchEvents) : fallbackResolves(e)

\* the worker from its first run to the requests it serves once active
NextWorker ==
  \/ Earlier \/ installEvent \/ AddAll \/ activateEvent \/ Deleted \/ activated
  \/ Fetch \/ Matched \/ Network \/ Put \/ Fallback
SpecWorker == Init /\ [][NextWorker]_vars

\* ================================================================ properties
\* the assistant entries of the transcript that belong to send i
Replies(i) == {k \in 1..Len(chatMessages) : chatMessages[k].cls = "ai" /\ chatMessages[k].turn = i}
Settled == \A i \in 1..Len(calls) : calls[i].pc = "done"
FailureOutcomes == {"rejected", "unparsable", "noresponse"}
FeedMessages == {notifications[k].message : k \in 1..Len(notifications)}
FeedCount(type) == Cardinality({k \in 1..Len(notifications) : notifications[k].type = type})

\* C1: once every remote call has settled, the transcript holds exactly one
\* assistant entry for each user entry (no turn without a reply, none with two)
C1_OneReplyPerTurn ==
  Settled => \A i \in 1..Len(calls) : Cardinality(Replies(i)) = 1

\* C2: every send eventually produces its transcript update, whatever the chat
\* service does, including never answering
C2_SendEventuallyAnswered ==
  \A i \in 1..MaxSends : (Len(calls) >= i) ~> (Replies(i) # {})

\* C3: after every kind of remote-call failure the composing indicator is gone,
\* the turn has exactly one assistant entry, which holds the rule-table text
\* without intent or confidence, and that text has been spoken
C3_FailureGivesFallback ==
  \A i \in 1..Len(calls) :
    calls[i].outcome \in FailureOutcomes =>
      /\ Cardinality(Replies(i)) = 1
      /\ \A k \in Replies(i) :
           /\ chatMessages[k].reply = getDemoResponse(calls[i].message)
           /\ chatMessages[k].meta = NoMeta
      /\ \E k \in 1..Len(spoken) : spoken[k] = getDemoResponse(calls[i].message)
      /\ Settled => \A k \in 1..Len(chatMessages) : chatMessages[k].cls # "typing"

MentionsBooking(message) ==
  includes(toLowerCase(message), KwTestRide) \/ includes(toLowerCase(message), KwBook)
MentionsBikes(message) ==
  \/ includes(toLowerCase(message), KwBike)
  \/ includes(toLowerCase(message), KwUnder)
  \/ includes(toLowerCase(message), KwLakh)
FailedCalls == {i \in 1..Len(calls) : calls[i].outcome \in {"rejected", "unparsable"}}

ExecutedCount ==
  Cardinality({k \in 1..Len(notifications) : notifications[k].message.key = "Executed"})

\* C5: an utterance that contains a trigger phrase runs the bound action and is
\* not forwarded: no user entry and no request carries it, and every utterance
\* heard was either executed or forwarded, never both
C5_CommandNotForwarded ==
  /\ \A k \in 1..Len(requests) : findCommand(requests[k].message) = NoCommand
  /\ \A k \in 1..Len(chatMessages) :
       chatMessages[k].cls = "user" => findCommand(chatMessages[k].text) = NoCommand
  /\ used["voice"] = ExecutedCount + Len(calls)

\* C5 witness: "please show dashboard now" was heard; the section switch ran,
\* its confirmation was posted and nothing was sent
C5_Witness ==
  /\ used["voice"] = 1
  /\ MsgArg("Executed", CmdShowDashboard) \in FeedMessages
  /\ \E k \in 1..Len(chatMessages) :
       chatMessages[k].msg = MsgArg("Switched to section", <<"dashboard">>)
  /\ calls = <<>> /\ requests = <<>>
  /\ \A k \in 1..Len(chatMessages) : chatMessages[k].cls # "user"

\* C6: every start of capture on a platform without capture capability leaves
\* the capture state idle and posts exactly one warning notification
C6_WarnsOnEachStart ==
  (ready /\ ~hasCapture) =>
    /\ ~isListening /\ recState = "inactive"
    /\ FeedCount("warning") = used["mic"]

\* C7: notification ids strictly increase in post order, so they strictly
\* decrease down the newest-first feed
C7_IdsStrictlyIncreasing ==
  \A k \in 1..(Len(notifications) - 1) : notifications[k].id > notifications[k + 1].id

\* C8: across timer ticks and manual refreshes conversations and leads never
\* decrease from one snapshot to the next, no field is negative and the
\* satisfaction percentage stays within 0..100
C8_MetricsMonotone ==
  /\ [](/\ realTimeData.conversations >= 0 /\ realTimeData.leads >= 0
        /\ realTimeData.revenue >= 0
        /\ realTimeData.satisfaction \in 0..100)
  /\ [][/\ realTimeData'.conversations >= realTimeData.conversations
        /\ realTimeData'.leads >= realTimeData.leads]_vars

\* C8 witness: ticks of both timers and a spoken "refresh data" have run and the
\* counters have grown
C8_Witness ==
  /\ used["tick"] = MaxTicks
  /\ Msg("Refreshing all data sources...") \in FeedMessages
  /\ realTimeData.conversations > InitConversations + 4
  /\ realTimeData.leads > InitLeads

ReportDownloads(r) ==
  {k \in 1..Len(downloads) :
     downloads[k].kind = "VoiceBot-Enterprise-Report.pdf" /\ downloads[k].run = r}
RunsAt(pcs) == {r \in 1..Len(reports) : reports[r].pc \in pcs}
ReportFailedMsg == Msg("PDF generation failed. Please try again.")
ReportDoneMsg == Msg("Advanced PDF report with charts generated successfully!")
FeedCountOf(message) ==
  Cardinality({k \in 1..Len(notifications) : notifications[k].message = message})

C10_SingleCompilation ==
  Cardinality({r \in 1..Len(reports) : Compiling(r)}) <= 1

\* the place of send i's user entry in the transcript
UserPos(i) ==
  CHOOSE k \in 1..Len(chatMessages) : chatMessages[k].cls = "user" /\ chatMessages[k].turn = i
\* the reply computed for send i's own text: the remote one, or the fallback
OwnReply(i) ==
  IF calls[i].outcome = "replied" THEN calls[i].body.response
  ELSE getDemoResponse(calls[i].message)
\* send j was made before send i was answered
Overlapped(i, j) ==
  /\ i < j /\ Replies(i) # {}
  /\ \A k \in Replies(i) : k > UserPos(j)

\* C11: when two sends were in flight together and both have settled, each has
\* exactly one assistant entry and its text is the reply computed for that
\* send's own text
C11_OwnReplyOnce ==
  \A i, j \in 1..Len(calls) :
    (Settled /\ Overlapped(i, j)) =>
      \A c \in {i, j} :
        /\ Cardinality(Replies(c)) = 1
        /\ \A k \in Replies(c) : chatMessages[k].reply = OwnReply(c)

\* C12: whenever a user entry is appended, no quick-reply element rendered for
\* an earlier assistant entry remains: no quick-reply element precedes a later
\* turn's user entry in the transcript
C12_NoStaleQuickReplies ==
  \A k \in 1..Len(chatMessages) :
    chatMessages[k].cls = "user" =>
      \A j \in 1..(k - 1) :
        ~(chatMessages[j].cls = "quick" /\ chatMessages[j].turn < chatMessages[k].turn)

Idle == ~isListening
Listening == isListening

\* C13: the capture state becomes Listening only on the start event of a session
\* that startListening began from Idle; a result arrives only in Listening, hands
\* the utterance over exactly once (one command executed or one send made) and
\* ends the session, after which the state returns to Idle; Listening is left
\* only when a session ends
C13_CaptureStateMachine ==
  /\ [][/\ (recState' = "starting" /\ recState # "starting") =>
             (recState = "inactive" /\ Idle /\ used'["mic"] = used["mic"] + 1)
        /\ (Listening' /\ Idle) => (recState = "starting" /\ recState' = "listening")
        /\ (used'["voice"] # used["voice"]) =>
             /\ Listening /\ recState = "listening" /\ recState' = "ending"
             /\ used'["voice"] = used["voice"] + 1
             /\ ExecutedCount' + Len(calls') = ExecutedCount + Len(calls) + 1
        /\ (Idle' /\ Listening) => recState' \in {"ending", "inactive"}]_vars
  /\ (recState = "ending") ~> (Idle /\ recState = "inactive")

\* C13 witness: a session was started from Idle, "Hello" was heard and handed
\* over once, and the state is Idle again
C13_Witness ==
  /\ Idle /\ recState = "inactive"
  /\ used["mic"] = 1 /\ used["voice"] = 1
  /\ Len(calls) = 1 /\ calls[1].message = toLowerCase(UttHello)
  /\ ExecutedCount = 0

CaptureErrorMsg == Msg("Voice recognition error. Please try again.")
CaptureErrors ==
  Cardinality({k \in 1..Len(chatMessages) : chatMessages[k].msg = CaptureErrorMsg})

\* C14: every platform-reported capture error has posted a notification of
\* severity error into the notification feed
C14_ErrorNotified ==
  FeedCount("error") >= CaptureErrors

\* C14 (the part the code keeps): a capture error puts the capture state at
\* Idle, and a new start is accepted afterwards
C14_Recovers ==
  /\ CaptureErrors = 1 /\ used["mic"] = 2
  /\ Listening /\ recState = "listening"

\* C15: stopListening raises nothing and never changes the listening flag by
\* itself; with no recognizer, or with no session under way, it changes nothing
\* at all (so a second stop in a row changes nothing); called during a session
\* it ends that session, and the state then returns to Idle
C15_StopIdempotent ==
  /\ [][stopCapture =>
          /\ chatMessages' = chatMessages
          /\ (~recognition \/ recState \in {"inactive", "ending"}) => UNCHANGED vars
          /\ (recognition /\ recState \in {"starting", "listening"}) => recState' = "ending"
          /\ recState' \in {"inactive", "ending"}]_vars
  /\ (Listening /\ recState = "ending") ~> (Idle /\ recState = "inactive")

\* C15 witness: a session that heard nothing and reported no error was stopped
\* while Listening
C15_Witness ==
  /\ Listening /\ recState = "ending"
  /\ used["mic"] = 1 /\ used["voice"] = 0 /\ CaptureErrors = 0

AllUtterances == Utterances \cup CommandUtterances
\* the trigger phrases an utterance contains, letter case ignored
Matching(u) == {k \in 1..Len(voiceCommands) : includes(toLowerCase(u), voiceCommands[k])}
\* of those, the one declared first (NoCommand when there is none)
DeclaredFirst ==
  [u \in AllUtterances |->
     IF Matching(u) = {} THEN NoCommand
     ELSE CHOOSE k \in Matching(u) : \A j \in Matching(u) : k <= j]

\* C16: an utterance that contains trigger phrases, in any letter case, runs
\* exactly one action, the one of the phrase declared first among those it
\* contains, whatever their positions in the utterance
C16_FirstDeclaredWins ==
  [][used'["voice"] # used["voice"] =>
       \A u \in AllUtterances :
         DeclaredFirst[u] # NoCommand =>
           \A inc \in (IF DeclaredFirst[u] = 6 THEN Draws(5, 2, 2000) ELSE {ZeroDraw}) :
             onresult(u, 0, 0, inc) =>
               /\ Head(notifications').message =
                    MsgArg("Executed", voiceCommands[DeclaredFirst[u]])
               /\ ExecutedCount' = ExecutedCount + 1
               /\ World' = [addNotification(runCommand(World, DeclaredFirst[u], 0, inc), 0,
                              MsgArg("Executed", voiceCommands[DeclaredFirst[u]]), "success")
                            EXCEPT !.feed = notifications', !.chat = chatMessages']
               /\ UNCHANGED dispatchVars]_vars

\* C16 witness: "light mode dark mode" and "Dark Mode" both contain "dark mode",
\* declared before "light mode"; a theme command has run once and its
\* confirmation names "dark mode"
C16_Witness ==
  /\ Cardinality(Matching(UttLightThenDark)) = 2
  /\ DeclaredFirst[UttLightThenDark] = 7 /\ DeclaredFirst[UttDarkMode] = 7
  /\ used["voice"] = 1 /\ ExecutedCount = 1
  /\ notifications # <<>> /\ Head(notifications).message = MsgArg("Executed", CmdDarkMode)
  /\ isDarkMode

\* C17: when no trigger phrase matches, the user entry appended and the message
\* sent to the chat service are exactly a recognized utterance, character for
\* character
C17_ForwardedUnchanged ==
  /\ \A k \in 1..Len(requests) : requests[k].message \in AllUtterances
  /\ \A k \in 1..Len(chatMessages) :
       chatMessages[k].cls = "user" => chatMessages[k].text \in AllUtterances

\* C18: every execution of a matched voice command posts a success notification
\* naming the matched trigger phrase; it is posted after the action has run, so
\* it lies above whatever the action posted itself and is the newest feed entry
\* when the handler returns
C18_ConfirmationIsNewest ==
  [][used'["voice"] # used["voice"] =>
       \A u \in AllUtterances :
         DeclaredFirst[u] # NoCommand =>
           \A inc \in (IF DeclaredFirst[u] = 6 THEN Draws(5, 2, 2000) ELSE {ZeroDraw}) :
             onresult(u, 0, 0, inc) =>
               LET acted == runCommand(World, DeclaredFirst[u], 0, inc) IN
               /\ Len(notifications') = Len(acted.feed) + 1
               /\ Tail(notifications') = acted.feed
               /\ Head(notifications').type = "success"
               /\ Head(notifications').message.key = "Executed"
               /\ Head(notifications').message.arg = voiceCommands[DeclaredFirst[u]]
               /\ chatMessages'[Len(chatMessages')].msg = Head(notifications').message]_vars

\* a command whose action posts a notification of its own has run: the
\* confirmation is the newest entry and the action's notification lies below it
C18_Witness ==
  /\ Len(notifications) >= 2
  /\ notifications[1].type = "success"
  /\ notifications[1].message = MsgArg("Executed", CmdDarkMode)
  /\ notifications[2].type = "info"
  /\ notifications[2].message.key = "Switched to mode"

\* the pages assembled and the progress reported when a stage throws
AssembledBefore ==
  [create |-> <<1, 0>>, cover |-> <<1, 20>>, analytics |-> <<2, 30>>,
   customers |-> <<3, 50>>, inventory |-> <<4, 70>>, insights |-> <<5, 85>>,
   save |-> <<5, 95>>]

\* C19: when a stage of report compilation fails no later stage runs (the pages
\* and the progress stay where that stage left them), the document is not
\* saved, the run's progress display is removed and an error notification is
\* posted; a document is emitted only with all five pages assembled
C19_FailureStopsPipeline ==
  /\ \A r \in RunsAt({"aborted"}) :
       /\ reports[r].failedAt \in DOMAIN AssembledBefore
       /\ <<reports[r].pages, reports[r].percent>> = AssembledBefore[reports[r].failedAt]
       /\ \A k \in 1..Len(downloads) : downloads[k].run # r
  /\ Len(progressUI) = Cardinality({r \in 1..Len(reports) : reports[r].pc \notin {"done", "aborted"}})
  /\ Cardinality({k \in 1..Len(notifications) :
                    notifications[k].type = "error" /\ notifications[k].message = ReportFailedMsg})
       = Cardinality(RunsAt({"aborted"}))
  /\ \A k \in 1..Len(downloads) :
       downloads[k].kind = "VoiceBot-Enterprise-Report.pdf" =>
         /\ downloads[k].pages = 5
         /\ reports[downloads[k].run].percent = 100
         /\ reports[downloads[k].run].failedAt = "none"

\* a run has failed at the inventory page with four pages assembled: nothing was
\* saved, no progress display is left and the error notification is the newest
C19_Witness ==
  /\ \E r \in 1..Len(reports) :
       /\ reports[r].pc = "aborted" /\ reports[r].failedAt = "inventory"
       /\ reports[r].pages = 4
  /\ downloads = <<>>
  /\ progressUI = <<>>
  /\ notifications # <<>>
  /\ Head(notifications).type = "error"

\* C20: each data collection falls back to mock data on its own: whatever a
\* source answers, its fetch returns a collection (the remote one exactly when
\* the payload is usable), the collections already gathered stay as they are,
\* and the compilation is not aborted
C20_IndependentFallback ==
  /\ [](\A r \in 1..Len(reports) :
          /\ reports[r].pc # "aborted"
          /\ reports[r].pc # "fetchAnalytics" => reports[r].data.analytics \in {"remote", "mock"}
          /\ reports[r].pc \notin {"fetchAnalytics", "fetchCustomers"} =>
               reports[r].data.customers \in {"remote", "mock"}
          /\ reports[r].pc \notin {"fetchAnalytics", "fetchCustomers", "fetchInventory"} =>
               reports[r].data.inventory \in {"remote", "mock"})
  /\ [][\A r \in 1..Len(reports) : \A payload \in SourcePayloads :
          LET from == IF payload = "usable" THEN "remote" ELSE "mock"
              c == CASE reports[r].pc = "fetchAnalytics" -> "analytics"
                     [] reports[r].pc = "fetchCustomers" -> "customers"
                     [] OTHER -> "inventory"
          IN (reportFetched(r, payload) \/ reportCover(r, payload, SampleInventory, TRUE, 0)) =>
               /\ reports'[r].data = [reports[r].data EXCEPT ![c] = from]
               /\ reports'[r].pc \in {"fetchCustomers", "fetchInventory", "chart1"}
               /\ reports'[r].failedAt = "none"
               /\ notifications' = notifications
               /\ Len(progressUI') = Len(progressUI)]_vars

\* a compilation whose analytics and inventory sources were unavailable and whose
\* customers source answered has saved its document with the mixed collections
C20_Witness ==
  \E r \in 1..Len(reports) :
    /\ reports[r].pc = "done"
    /\ reports[r].data = [analytics |-> "mock", customers |-> "remote", inventory |-> "mock"]
    /\ Cardinality(ReportDownloads(r)) = 1
    /\ FeedCountOf(ReportFailedMsg) = 0
    /\ FeedCountOf(ReportDoneMsg) >= 1

\* C21: the mock data substituted for an unreachable source is deterministic:
\* two fallbacks for the inventory collection yield identical collections
C21_MockDeterministic ==
  \A r, q \in 1..Len(reports) :
    (reports[r].data.inventory = "mock" /\ reports[q].data.inventory = "mock") =>
      reports[r].inventory = reports[q].inventory

\* C22: a refresh tick whose data fetch fails is logged as a notification of
\* severity warning
C22_FailedTickLogged ==
  [][\A payload \in SourcePayloads \ {"usable"} : \A inventory \in generateMockInventory :
       checkInventoryAlerts(payload, inventory, 0) =>
         /\ Len(notifications') = Len(notifications) + 1
         /\ Head(notifications').type = "warning"]_vars

\* C23: exactly one periodic loop mutates the metrics snapshot: the firings that
\* advance it never come from two independent timers
C23_SingleRefreshLoop ==
  used["updates"] = 0 \/ used["monitoring"] = 0

\* C24: the session identity is created on the first dispatch and never
\* regenerated: it is unset exactly as long as nothing was dispatched, every
\* remote call carries the same non-empty identifier, and once set it never changes
C24_SessionIdentity ==
  /\ [](/\ (userId = NoUser) <=> (requests = <<>>)
        /\ \A k \in 1..Len(requests) :
             /\ requests[k].user_id # NoUser
             /\ requests[k].user_id = requests[1].user_id
             /\ requests[k].user_id = userId)
  /\ [][userId # NoUser => userId' = userId]_vars

\* a second send was dispatched after the first call had failed and been
\* answered from the fallback table, and both carry the same identifier
C24_Witness ==
  /\ Len(requests) = 2
  /\ calls[1].outcome = "rejected"
  /\ \E k \in 1..Len(chatMessages) :
       /\ chatMessages[k].cls = "ai" /\ chatMessages[k].turn = 1
       /\ k < UserPos(2)
  /\ requests[1].user_id = "user_b"
  /\ requests[2].user_id = "user_b"

\* C25: choosing a rendered quick reply dispatches exactly the chosen text (one
\* user entry, one remote call) and leaves no quick-reply element of that set
C25_QuickReplyResends ==
  [][\A k \in 1..Len(chatMessages) : \A j \in 1..2 :
       quickReplyClick(k, j) =>
         /\ Len(requests') = Len(requests) + 1
         /\ requests'[Len(requests')].message = chatMessages[k].items[j]
         /\ \E n \in 1..Len(chatMessages') :
              /\ chatMessages'[n].cls = "user"
              /\ chatMessages'[n].text = chatMessages[k].items[j]
              /\ chatMessages'[n].turn = Len(calls')
         /\ \A n \in 1..Len(chatMessages') :
              ~(chatMessages'[n].cls = "quick" /\ chatMessages'[n].turn = chatMessages[k].turn)]_vars

\* C26: the notification feed is purely additive: every step leaves the feed as
\* it was or puts new entries in front of it, the entries it held staying
\* unchanged and in the same order
C26_FeedAdditive ==
  [][/\ Len(notifications') >= Len(notifications)
     /\ SubSeq(notifications', Len(notifications') - Len(notifications) + 1,
               Len(notifications')) = notifications
     /\ \A k \in 1..(Len(notifications') - Len(notifications)) :
          notifications'[k].read = FALSE]_vars

\* start-up, the service-worker notice and a spoken command have posted: the
\* oldest entry is still the first start-up notification, the newest the
\* command's confirmation
C26_Witness ==
  /\ Len(notifications) >= 5
  /\ notifications[Len(notifications)].message = Msg("Advanced AI features activated!")
  /\ notifications[Len(notifications)].read = FALSE
  /\ Head(notifications).message.key = "Executed"
  /\ \E k \in 1..Len(notifications) : notifications[k].message = Msg("App can be installed for offline use!")

\* the rules of the fallback responder in their order
FallbackRules ==
  <<[triggers |-> {KwBike, KwUnder, KwLakh}, response |-> DemoBikes],
    [triggers |-> {KwTestRide, KwBook}, response |-> DemoTestRide],
    [triggers |-> {KwEmi, KwFinance}, response |-> DemoEmi],
    [triggers |-> {KwService, KwMaintenance}, response |-> DemoService]>>
RulesMatching(text) ==
  {k \in 1..Len(FallbackRules) :
     \E t \in FallbackRules[k].triggers : includes(toLowerCase(text), t)}
\* the response the rule order prescribes for each message
FirstRuleResponse ==
  [v \in RuleInputs |->
     IF RulesMatching(v) = {} THEN DemoGeneric
     ELSE FallbackRules[CHOOSE k \in RulesMatching(v) :
                          \A j \in RulesMatching(v) : k <= j].response]

\* C27: the fallback responder answers with the response of the first rule, in
\* the order bike/under/lakh, test ride/book, emi/finance, service/maintenance,
\* that has a trigger in the lower-cased message, whatever later rules match,
\* and with the generic response when no rule matches
C27_FirstRuleWins ==
  \A i \in 1..Len(calls) :
    calls[i].pc = "done" =>
      /\ calls[i].message \in RuleInputs
      /\ \E k \in Replies(i) : chatMessages[k].reply = FirstRuleResponse[calls[i].message]
      /\ \A k \in Replies(i) : chatMessages[k].reply = FirstRuleResponse[calls[i].message]

\* a message matching the second and the third rule was answered by the second,
\* one matching the third and the fourth by the third
C27_Witness ==
  /\ Len(calls) = 2
  /\ calls[1].pc = "done" /\ calls[2].pc = "done"
  /\ calls[1].message = TxtRideEmi /\ RulesMatching(TxtRideEmi) = {2, 3}
  /\ calls[2].message = TxtFinanceService /\ RulesMatching(TxtFinanceService) = {3, 4}
  /\ \E k \in Replies(1) : chatMessages[k].reply = DemoTestRide
  /\ \E k \in Replies(2) : chatMessages[k].reply = DemoEmi

ProgressSteps == {0, 20, 30, 50, 70, 85, 95, 100}

\* C28: the progress a compilation reports never decreases and takes the values
\* 20, 30, 50, 70, 85, 95, 100 only; 100 is reported only once the document has
\* been saved; the success notification is posted only for a compilation whose
\* document was saved, in the step that removes a progress display, and never
\* for one that aborted
C28_ProgressThenSuccess ==
  /\ [][\A r \in 1..Len(reports) :
          /\ reports'[r].percent >= reports[r].percent
          /\ reports'[r].percent \in ProgressSteps]_vars
  /\ [](\A r \in 1..Len(reports) :
          /\ reports[r].percent = 100 => Cardinality(ReportDownloads(r)) = 1
          /\ reports[r].pc = "aborted" => reports[r].percent < 100)
  /\ [][FeedCountOf(ReportDoneMsg)' # FeedCountOf(ReportDoneMsg) =>
          /\ FeedCountOf(ReportDoneMsg)' = FeedCountOf(ReportDoneMsg) + 1
          /\ Head(notifications').message = ReportDoneMsg
          /\ Head(notifications').type = "success"
          /\ Len(progressUI') = Len(progressUI) - 1
          /\ \E r \in 1..Len(reports) :
               /\ reports[r].pc = "timer" /\ reports'[r].pc = "done"
               /\ reports[r].percent = 100 /\ reports[r].failedAt = "none"
               /\ ReportDownloads(r) # {}]_vars
  /\ [](FeedCountOf(ReportDoneMsg) = Cardinality(RunsAt({"done"})))

\* one compilation has gone through to 100 and its success notification, another
\* has aborted at 70: one document, one success and one error notification
C28_Witness ==
  \E r, q \in 1..Len(reports) :
    /\ reports[r].pc = "done" /\ reports[r].percent = 100
    /\ reports[q].pc = "aborted" /\ reports[q].percent = 70
    /\ Len(downloads) = 1 /\ downloads[1].run = r
    /\ FeedCountOf(ReportDoneMsg) = 1
    /\ progressUI = <<>>

\* C29: the number of composing indicators shown equals the number of sends
\* whose remote call has not been handled yet
C29_IndicatorPerPendingSend ==
  Cardinality({k \in 1..Len(chatMessages) : chatMessages[k].cls = "typing"})
    = Cardinality({i \in 1..Len(calls) : calls[i].pc # "done"})

CouldNotStartMsg == Msg("Could not start voice recognition.")

\* C30: a start of capture issued while a capture is already starting or under
\* way leaves the capture state as it was and reports an error message, and
\* the capture already under way still ends in Idle
C30_SecondStartReported ==
  /\ [][(toggleVoiceRecognition /\ recognition /\ Idle /\ recState # "inactive") =>
          /\ recState' = recState
          /\ Idle'
          /\ Len(chatMessages') = Len(chatMessages) + 1
          /\ SubSeq(chatMessages', 1, Len(chatMessages)) = chatMessages
          /\ chatMessages'[Len(chatMessages')].cls = "system"
          /\ chatMessages'[Len(chatMessages')].type = "error"
          /\ chatMessages'[Len(chatMessages')].msg = CouldNotStartMsg
          /\ notifications' = notifications]_vars
  /\ (recState = "starting") ~> (Idle /\ recState = "inactive")

\* the microphone button was clicked twice before the recognizer reported its
\* start: the second click was reported, the session then started, and it has
\* ended in Idle
C30_Witness ==
  /\ used["mic"] = 2
  /\ Idle /\ recState = "inactive"
  /\ \E k, n \in 1..Len(chatMessages) :
       /\ k < n
       /\ chatMessages[k].msg = CouldNotStartMsg
       /\ chatMessages[n].msg = Msg("Listening...")

\* ---------------------------------------------------------------- C31
\* the texts m for which value is m between runs of spaces, m itself neither
\* starting nor ending with a space
Trimmed(value) ==
  {m \in {SubSeq(value, a + 1, Len(value) - b) : a, b \in 0..Len(value)} :
     /\ m # <<>>
     /\ m[1] # " " /\ m[Len(m)] # " "
     /\ \E a \in 0..Len(value) :
          /\ a + Len(m) <= Len(value)
          /\ SubSeq(value, a + 1, a + Len(m)) = m
          /\ \A k \in (1..a) \cup ((a + Len(m) + 1)..Len(value)) : value[k] = " "}

UserEntries(chat) == {k \in 1..Len(chat) : chat[k].cls = "user"}
Indicators(chat) == {k \in 1..Len(chat) : chat[k].cls = "typing"}

\* C31: submitting a typed message that is empty or only spaces appends no user
\* entry, shows no composing indicator, makes no remote call and leaves the field
\* as it was; submitting any other message appends exactly one user entry that
\* holds the message without its surrounding spaces, sends exactly one request
\* with that same text, and empties the input field.
C31_BlankIgnoredElseSentOnce ==
  [][\A value \in TypedInputs \cup RuleInputs :
       sendTextMessage(value) =>
         IF \A k \in 1..Len(value) : value[k] = " "
           THEN /\ chatMessages' = chatMessages
                /\ requests' = requests
                /\ calls' = calls
                /\ textInput' = value
           ELSE /\ Len(chatMessages') = Len(chatMessages) + 2
                /\ SubSeq(chatMessages', 1, Len(chatMessages)) = chatMessages
                /\ Cardinality(UserEntries(chatMessages')) =
                     Cardinality(UserEntries(chatMessages)) + 1
                /\ Cardinality(Indicators(chatMessages')) =
                     Cardinality(Indicators(chatMessages)) + 1
                /\ chatMessages'[Len(chatMessages) + 1].cls = "user"
                /\ chatMessages'[Len(chatMessages) + 1].type = "text"
                /\ Trimmed(value) = {chatMessages'[Len(chatMessages) + 1].text}
                /\ Len(requests') = Len(requests) + 1
                /\ SubSeq(requests', 1, Len(requests)) = requests
                /\ requests'[Len(requests')].message =
                     chatMessages'[Len(chatMessages) + 1].text
                /\ Len(calls') = Len(calls) + 1
                /\ textInput' = <<>>]_vars

\* a padded message was sent without its padding and a blank one was then
\* submitted and ignored
C31_Witness ==
  /\ textInput = TxtBlank
  /\ Len(requests) = 1
  /\ requests[1].message = <<"B","o","o","k">>
  /\ Cardinality(UserEntries(chatMessages)) = 1
  /\ \E k \in UserEntries(chatMessages) : chatMessages[k].text = <<"B","o","o","k">>

\* ---------------------------------------------------------------- C32
\* C32: when the recognizer delivers an utterance whose command is "dark mode"
\* the session is in dark mode afterwards, and when it is "light mode" the session
\* is in light mode afterwards, whatever the theme was before.
C32_ThemeCommandSetsTheme ==
  [][\A u \in AllUtterances :
       onresult(u, 0, 0, ZeroDraw) =>
         /\ (CommandOf[u] # NoCommand /\ voiceCommands[CommandOf[u]] = CmdDarkMode)
              => isDarkMode'
         /\ (CommandOf[u] # NoCommand /\ voiceCommands[CommandOf[u]] = CmdLightMode)
              => ~isDarkMode']_vars

\* ---------------------------------------------------------------- C33
\* C33: every item of an inventory a compilation received is flagged 'Low Stock'
\* exactly when its stock is below the alert threshold of 15, so that counting by
\* flag (the report's inventory page) and counting by stock (the low-stock
\* warning) give the same number.
C33_LowStockConsistent ==
  \A r \in 1..Len(reports) :
    \A k \in 1..Len(reports[r].inventory) :
      (reports[r].inventory[k].status = "Low Stock")
        <=> (reports[r].inventory[k].stock < LowStockThreshold)

\* ---------------------------------------------------------------- C34
\* the responses the caches hold for a URL
CachedFor(url) ==
  {entry.response : entry \in
     UNION {{x \in cacheStorage[k].entries : x.url = url} : k \in 1..Len(cacheStorage)}}
\* the entries of the current cache
CurrentEntries ==
  UNION {cacheStorage[k].entries :
           k \in {j \in 1..Len(cacheStorage) : cacheStorage[j].name = CACHE_NAME}}
\* the fetch events whose network call failed and whose answer is out
FailedFetches ==
  {e \in 1..Len(fetchEvents) :
     /\ fetchEvents[e].pc = "done"
     /\ fetchEvents[e].network = 1
     /\ fetchEvents[e].fetched = NoResponse}

\* C34: when the cache lookup of a fetch event resolves, a GET request for which
\* some cache holds a response is answered with such a response and no network
\* call is made, and any other request goes to the network; no event calls the
\* network more than once; what the handler stored is in the current cache and
\* has status 200 and type 'basic'; an event whose network call failed is
\* answered with the current cache's entry for '/'.
C34_CacheFirst ==
  /\ [][\A e \in 1..Len(fetchEvents) :
          matchResolves(e) =>
            IF fetchEvents[e].request.method = "GET"
               /\ CachedFor(fetchEvents[e].request.url) # {}
              THEN /\ fetchEvents'[e].answer \in CachedFor(fetchEvents[e].request.url)
                   /\ fetchEvents'[e].network = 0
                   /\ fetchEvents'[e].pc = "done"
              ELSE /\ fetchEvents'[e].network = 1
                   /\ fetchEvents'[e].pc = "network"]_vars
  /\ [](\A e \in 1..Len(fetchEvents) :
          /\ fetchEvents[e].network <= 1
          /\ fetchEvents[e].store \in {"pending", "stored"} =>
               /\ fetchEvents[e].fetched.status = 200
               /\ fetchEvents[e].fetched.type = "basic"
               /\ fetchEvents[e].network = 1)
  /\ [](\A k \in 1..Len(cacheStorage) : \A entry \in cacheStorage[k].entries :
          entry.response.origin = "network" =>
            /\ cacheStorage[k].name = CACHE_NAME
            /\ entry.response.status = 200
            /\ entry.response.type = "basic")
  /\ [](\A e \in FailedFetches :
          [url |-> "/", response |-> fetchEvents[e].answer] \in CurrentEntries)

\* a fetched response was stored and a later request for the same URL was
\* answered with it, without a network call
C34_Witness ==
  \E e1, e2 \in 1..Len(fetchEvents) :
    /\ fetchEvents[e1].store = "stored"
    /\ fetchEvents[e2].pc = "done"
    /\ fetchEvents[e2].network = 0
    /\ fetchEvents[e2].request = fetchEvents[e1].request
    /\ fetchEvents[e2].answer = fetchEvents[e1].fetched

\* ---------------------------------------------------------------- C35
\* C35: once the activate event has completed, the current cache is the only cache
\* left, whatever caches existed when the worker was installed; and from the
\* moment install has completed the current cache holds every listed resource.
C35_OnlyCurrentCacheKept ==
  /\ swPhase = "activated" =>
       {cacheStorage[k].name : k \in 1..Len(cacheStorage)} = {CACHE_NAME}
  /\ swPhase \in {"installed", "activating", "activated"} =>
       \A i \in 1..Len(CACHE_URLS) :
         \E entry \in CurrentEntries : entry.url = CACHE_URLS[i]

\* activation has completed on an origin where a cache of the current name
\* existed before install: what it held beside the listed resources is still there
C35_Witness ==
  /\ swPhase = "activated"
  /\ Len(cacheStorage) = 1
  /\ \E entry \in CurrentEntries : entry.response.origin = "earlier"

====
